---- MODULE Spec2Model ----
(***************************************************************************)
(* UnFoldAI client: the session controller (ChatInterface), the artifact   *)
(* version store (ArtifactCanvas), the selection owned by AppLayout and    *)
(* the local plan store (storageService), as one state machine.            *)
(*                                                                         *)
(* React specifics that the model keeps:                                   *)
(*  - a handler reads the state of the render it was created in; an async  *)
(*    handler keeps reading that render's values after its await, and the  *)
(*    continuation timer re-invokes the handler of the same render.  The   *)
(*    values read that way are the cycle's closure `cl`.                   *)
(*  - refs (latestProgressRef) are shared cells, read at their live value. *)
(*  - an effect whose dependency changed runs after the handler that       *)
(*    changed it, so its assignments are applied last.                     *)
(*                                                                         *)
(* Specifications, all over the same actions:                              *)
(*   Spec            two concurrent sends, two selections                  *)
(*   SessionSpec     one send, one selection, no documents from the service*)
(*   TranscriptSpec  as SessionSpec, with every kind of transcript         *)
(*   BindingSpec     a service that creates and updates documents          *)
(*   FairSpec        SessionSpec's steps under the scheduling's fairness   *)
(*   CanvasSpec      the version store over every stored document          *)
(*   EditSpec        the editing protocol of the version store             *)
(*   RaceSpec        edits and commits next to a session that sends        *)
(*   MentionSpec     reference tokens, the suggestion list and attachments *)
(*   DetectSpec      every short text and caret position of the text area  *)
(*   ProposalSpec    two sends against a service that proposes task lists  *)
(*   AttachSpec      sends next to uploads, mentions and detachments       *)
(*   NotifySpec      one send next to a canvas that navigates and edits    *)
(*   EditorSpec      the editors of the sections of the edit buffer        *)
(*   StoreSpec       saves, deletions and duplications of stored plans     *)
(*   FetchSpec       two stored plans and their history fetches            *)
(*   ContinuationSpec  one send with uploads and its continuations         *)
(*   RefreshSpec     an edit next to plan switches and a send              *)
(***************************************************************************)
EXTENDS Integers, Sequences, FiniteSets, TLC

\* ------------------------------------------------------------------ bounds
MaxSends == 2
MaxSelects == 2
SessionSends == 1
SessionSelects == 1
MaxVersion == 5
MaxHistory == 3
CanvasSelects == 1
MaxPendingSaves == 1
MaxAlerts == 1
MaxAttached == 2
MaxText == 3
ProposalSends == 2

\* ------------------------------------------------------------------ values
CurrentUser == "u1"
OtherUser == "u2"
NoPlan == "null"
PlanIds == {"p1", "p2"}
NoConversation == 0

Space == " "
At == "@"
ContinueToken == "[CONTINUE_RESEARCH]"
ContinueSentinel == <<ContinueToken>>
StartDeepSearchText == <<"Start deep search">>

NoDuration == -1
NoProgress == [kind |-> "none", step |-> 0, duration |-> NoDuration]
ServerProgress == [kind |-> "progress", step |-> 1, duration |-> NoDuration]
StoredProgress == [kind |-> "progress", step |-> 2, duration |-> 42]

\* ResearchTask[] | null: an empty list is a list, not null.
TaskList(ts) == [present |-> TRUE, tasks |-> ts]
NoTasks == [present |-> FALSE, tasks |-> <<>>]
ServerTasks == TaskList(<<"task">>)

\* PlanSection.
Section(title, content) == [title |-> title, content |-> content]

\* AccountPlan; a history entry is a document of an earlier version.
Doc(id, userId, company, version, updatedAt, sections, history) ==
  [id |-> id, userId |-> userId, company |-> company, version |-> version,
   updatedAt |-> updatedAt, sections |-> sections, history |-> history]

NoDoc == Doc(NoPlan, "", "", 0, "", <<>>, <<>>)

\* A file known to the session: {id, filename}.
File1 == [id |-> "f1", filename |-> <<"r", "e", "p">>]

\* ------------------------------------------------------------- pure helpers
\* String.prototype.trim over a text given as a sequence of characters.
RECURSIVE TrimLeft(_)
TrimLeft(s) == IF s # <<>> /\ Head(s) = Space THEN TrimLeft(Tail(s)) ELSE s

RECURSIVE TrimRight(_)
TrimRight(s) ==
  IF s # <<>> /\ s[Len(s)] = Space THEN TrimRight(SubSeq(s, 1, Len(s) - 1)) ELSE s

Trim(s) == TrimRight(TrimLeft(s))

\* Array.prototype.map.
MapSeq(F(_), s) == [i \in 1..Len(s) |-> F(s[i])]

\* Array.prototype.filter.
RECURSIVE FilterSeq(_, _)
FilterSeq(P(_), s) ==
  IF s = <<>> THEN <<>>
  ELSE IF P(Head(s)) THEN <<Head(s)>> \o FilterSeq(P, Tail(s))
  ELSE FilterSeq(P, Tail(s))

\* ------------------------------------------------------- transcript values
Message(id, role, content, rp) ==
  [id |-> id, role |-> role, content |-> content, researchProgress |-> rp]

\* A message as the backend sends it: role in the backend's vocabulary, and a
\* researchProgress only when the backend persisted one.
Raw(role, content, rp) == [role |-> role, content |-> content, researchProgress |-> rp]

\* apiClient: the backend's role names onto the client's two roles.
MapRole(r) == IF r \in {"ai", "assistant"} THEN "assistant" ELSE "user"

\* apiClient: data.messages onto ChatMessage[], the id being the position.
MapBackendMessages(raw) ==
  [i \in 1..Len(raw) |->
     Message(<<"msg", i - 1>>, MapRole(raw[i].role), raw[i].content,
             raw[i].researchProgress)]

\* new Map(prev.map(m => [m.id, m.researchProgress])).get(id): the last entry
\* of prev with that id decides; undefined (NoProgress) when there is none.
ProgressMapGet(prev, id) ==
  LET hits == {i \in 1..Len(prev) : prev[i].id = id}
  IN IF hits = {} THEN NoProgress
     ELSE prev[CHOOSE i \in hits : \A j \in hits : j <= i].researchProgress

\* A replacement that takes the authoritative message as it comes.
MergeEntryAuthoritative(prev, msg) == msg

\* The replacement transcript: progressMap.get(msg.id) || msg.researchProgress.
MergeEntry(prev, msg) ==
  LET kept == ProgressMapGet(prev, msg.id)
  IN [msg EXCEPT !.researchProgress =
        IF kept # NoProgress THEN kept ELSE msg.researchProgress]

\* A reconciliation that keeps the local transcript and appends to it.
MergeTranscriptAppends(prev, authoritative) == prev \o authoritative

MergeTranscript(prev, authoritative) ==
  [i \in 1..Len(authoritative) |-> MergeEntry(prev, authoritative[i])]

\* The render filter for auto-generated control messages.
IsControlMessage(msg) == msg.role = "user" /\ Trim(msg.content) = ContinueSentinel

\* A message area that renders every entry.
IsShownAlways(msg) == TRUE

IsShown(msg) == ~IsControlMessage(msg)

\* The transcript entries the message area renders.
Displayed(msgs) == FilterSeq(IsShown, msgs)

\* The seeded messages.
WelcomeBack(company) ==
  Message(<<"welcome", 0>>, "assistant", <<"Welcome back!", company>>, NoProgress)

WelcomeUnknown ==
  Message(<<"welcome", 0>>, "assistant", <<"Welcome!">>, NoProgress)

WelcomeNew ==
  Message(<<"welcome-new", 0>>, "assistant", <<"Hi there!">>, NoProgress)

ErrorMessage(now) ==
  Message(<<"now", now>>, "assistant", <<"Sorry, I encountered an error">>, NoProgress)

\* ------------------------------------------------------------ storageService
\* The value of localStorage["app_plans"] is a sequence of documents.
IsOwnedBy(userId, p) == p.userId = userId

GetPlansForUser(store, userId) ==
  LET Mine(p) == IsOwnedBy(userId, p) IN FilterSeq(Mine, store)

\* plans.find(p => p.id === id) || null: the first match.
FindPlan(plans, id) ==
  LET hits == {i \in 1..Len(plans) : plans[i].id = id}
  IN IF hits = {} THEN NoDoc
     ELSE plans[CHOOSE i \in hits : \A j \in hits : i <= j]

\* A save that appends the document whatever the store holds.
SavePlanAppends(store, plan) == Append(store, plan)

\* savePlan: replace the first document with the same id in place, else append.
SavePlan(store, plan) ==
  LET hits == {i \in 1..Len(store) : store[i].id = plan.id}
  IN IF hits # {}
     THEN [store EXCEPT ![CHOOSE i \in hits : \A j \in hits : i <= j] = plan]
     ELSE Append(store, plan)

\* ------------------------------------------------------- ArtifactCanvas (pure)
CurrentView == -1

\* [...(plan.history || []), plan]: the live document comes last.
Candidates(doc) == doc.history \o <<doc>>

\* A version map that keeps the first candidate of a version.
VersionMapGetFirst(cands, v) ==
  cands[CHOOSE i \in 1..Len(cands) :
          /\ cands[i].version = v
          /\ \A j \in 1..Len(cands) : cands[j].version = v => i <= j]

\* versionMap.set(p.version, p) over the candidates: the last candidate of a
\* version is the one kept.
VersionMapGet(cands, v) ==
  cands[CHOOSE i \in 1..Len(cands) :
          /\ cands[i].version = v
          /\ \A j \in 1..Len(cands) : cands[j].version = v => j <= i]

VersionKeys(cands) == {cands[i].version : i \in 1..Len(cands)}

\* unique.sort((a, b) => a.version - b.version) over distinct versions.
RECURSIVE SortAscending(_)
SortAscending(S) ==
  IF S = {} THEN <<>>
  ELSE LET least == CHOOSE x \in S : \A y \in S : x <= y
       IN <<least>> \o SortAscending(S \ {least})

VersionEntry(doc, p) ==
  [actualVersion |-> p.version, displayVersion |-> p.version,
   updatedAt |-> p.updatedAt, isCurrent |-> (p.version = doc.version)]

\* availableVersions of a live document (empty when there is none).
AvailableVersions(doc) ==
  IF doc = NoDoc THEN <<>>
  ELSE LET cands == Candidates(doc)
           order == SortAscending(VersionKeys(cands))
       IN [i \in 1..Len(order) |-> VersionEntry(doc, VersionMapGet(cands, order[i]))]

\* A click that stores the version number it was given.
SelectedPointerRaw(doc, v) == v

\* The version list's onClick: the pointer the click leaves.
SelectedPointer(doc, v) == IF v = doc.version THEN CurrentView ELSE v

\* A navigation that takes the pointer for a position in the history.
ResolveDisplayByIndex(doc, pointer, shown) ==
  IF pointer = CurrentView \/ pointer >= doc.version THEN doc
  ELSE IF pointer <= Len(doc.history) THEN doc.history[pointer]
  ELSE doc

\* The history navigation effect: the document shown for a pointer.  With no
\* history at all the displayed document is left as it was.
ResolveDisplay(doc, pointer, shown) ==
  IF pointer = CurrentView \/ pointer >= doc.version THEN doc
  ELSE IF Len(doc.history) > 0
       THEN LET hits == {i \in 1..Len(doc.history) : doc.history[i].version = pointer}
            IN IF hits # {}
               THEN doc.history[CHOOSE i \in hits : \A j \in hits : i <= j]
               ELSE doc
       ELSE shown

\* ------------------------------------------------------------------- state
VARIABLES
  \* AppLayout
  selectedPlanId,      \* the bound plan id, or NoPlan
  \* ChatInterface
  messages,            \* the transcript
  inputValue,          \* the text area
  isResearching,
  researchProgress,
  researchStartTime,
  proposedPlan,
  activeResearchPlan,
  currentPlan,
  tempConversationId,  \* the ephemeral conversation id, NoConversation when empty
  attachedFiles,       \* the pending attachments
  availableFiles,
  mentionQuery,        \* NoMention, or the text of the open reference token
  mentionIndex,
  latestProgressRef,
  \* asynchronous work of ChatInterface
  cycles,              \* one entry per user-initiated send, see Cycle
  fetches,             \* the history fetches in flight
  \* ArtifactCanvas
  plan,
  displayPlan,
  isEditing,
  editState,
  historyIndex,
  showVersionPanel,    \* the version panel is open
  saves,               \* the updatePlan requests in flight
  alerts,              \* the alert() dialogs shown so far
  \* environment
  planStore,           \* localStorage["app_plans"]
  clock,               \* Date.now()
  nextConversation,    \* the next ephemeral id the client mints
  selects,             \* selections made in the sidebar
  crashed              \* an exception left a render: the tree is unmounted

appVars == <<selectedPlanId>>

chatVars == <<messages, inputValue, isResearching, researchProgress,
              researchStartTime, proposedPlan, activeResearchPlan, currentPlan,
              tempConversationId, attachedFiles, availableFiles, mentionQuery,
              mentionIndex, latestProgressRef>>

asyncVars == <<cycles, fetches>>

canvasVars == <<plan, displayPlan, isEditing, editState, historyIndex,
                showVersionPanel>>

commitVars == <<saves, alerts>>

envVars == <<planStore, clock, nextConversation, selects, crashed>>

vars == <<appVars, chatVars, asyncVars, canvasVars, commitVars, envVars>>

NoMention == <<"null">>

\* ------------------------------------------------------ asynchronous records
\* What a send cycle reads from the render it was started in.
Closure ==
  [selectedPlanId |-> selectedPlanId, tempConversationId |-> tempConversationId,
   isResearching |-> isResearching, researchStartTime |-> researchStartTime,
   attachedFiles |-> attachedFiles]

NoClosure ==
  [selectedPlanId |-> NoPlan, tempConversationId |-> NoConversation,
   isResearching |-> FALSE, researchStartTime |-> 0, attachedFiles |-> <<>>]

\* The payload of apiClient.sendChatMessage.
Request(userId, planId, message, conversationId, fileIds) ==
  [userId |-> userId, planId |-> planId, message |-> message,
   conversationId |-> conversationId, fileIds |-> fileIds]

NoRequest == Request("", NoPlan, <<>>, NoConversation, <<>>)

\* A send cycle: the request in flight ("inflight"), the continuation timer
\* armed ("timer"), or over: "done" after an answer that ends the loop, "failed"
\* after the catch branch ran.
Cycle(st, hidden, cl, req) == [st |-> st, hidden |-> hidden, cl |-> cl, req |-> req]

DoneCycle == Cycle("done", FALSE, NoClosure, NoRequest)

FailedCycle == Cycle("failed", FALSE, NoClosure, NoRequest)

Active(c) == c.st \in {"inflight", "timer"}

ActiveCycles == {i \in 1..Len(cycles) : Active(cycles[i])}

\* A history fetch in flight: the id asked for and the `plan` its callbacks hold.
Fetch(planId, found) == [planId |-> planId, plan |-> found]

FileId(f) == f.id

\* ------------------------------------------------------------------ effects
\* A reset effect that leaves the transcript and the proposal of the session
\* it leaves in place.
ChatResetEffectKeeps(id, store) ==
  /\ isResearching' = FALSE
  /\ researchProgress' = NoProgress
  /\ UNCHANGED <<messages, proposedPlan>>
  /\ activeResearchPlan' = NoTasks
  /\ latestProgressRef' = NoProgress
  /\ IF id # NoPlan
     THEN /\ currentPlan' = FindPlan(GetPlansForUser(store, CurrentUser), id)
          /\ tempConversationId' = NoConversation
          /\ fetches' = Append(fetches,
                          Fetch(id, FindPlan(GetPlansForUser(store, CurrentUser), id)))
          /\ UNCHANGED <<availableFiles, nextConversation>>
     ELSE /\ currentPlan' = NoDoc
          /\ availableFiles' = <<>>
          /\ tempConversationId' = nextConversation
          /\ nextConversation' = nextConversation + 1
          /\ UNCHANGED fetches

\* A reset effect that leaves the ephemeral conversation id in place when a
\* plan is bound.
ChatResetEffectKeepsConversation(id, store) ==
  /\ isResearching' = FALSE
  /\ researchProgress' = NoProgress
  /\ proposedPlan' = NoTasks
  /\ activeResearchPlan' = NoTasks
  /\ latestProgressRef' = NoProgress
  /\ IF id # NoPlan
     THEN /\ messages' = <<>>
          /\ currentPlan' = FindPlan(GetPlansForUser(store, CurrentUser), id)
          /\ fetches' = Append(fetches,
                          Fetch(id, FindPlan(GetPlansForUser(store, CurrentUser), id)))
          /\ UNCHANGED <<availableFiles, nextConversation, tempConversationId>>
     ELSE /\ messages' = <<WelcomeNew>>
          /\ currentPlan' = NoDoc
          /\ availableFiles' = <<>>
          /\ tempConversationId' = nextConversation
          /\ nextConversation' = nextConversation + 1
          /\ UNCHANGED fetches

\* ChatInterface's effect on [selectedPlanId, currentUser], for the binding `id`
\* and the store as it is when the effect runs.  It assigns every variable it
\* names, so a handler that ends by changing the binding leaves these values.
ChatResetEffect(id, store) ==
  /\ isResearching' = FALSE
  /\ researchProgress' = NoProgress
  /\ proposedPlan' = NoTasks
  /\ activeResearchPlan' = NoTasks
  /\ latestProgressRef' = NoProgress
  /\ IF id # NoPlan
     THEN /\ messages' = <<>>
          /\ currentPlan' = FindPlan(GetPlansForUser(store, CurrentUser), id)
          /\ tempConversationId' = NoConversation
          /\ fetches' = Append(fetches,
                          Fetch(id, FindPlan(GetPlansForUser(store, CurrentUser), id)))
          /\ UNCHANGED <<availableFiles, nextConversation>>
     ELSE /\ messages' = <<WelcomeNew>>
          /\ currentPlan' = NoDoc
          /\ availableFiles' = <<>>
          /\ tempConversationId' = nextConversation
          /\ nextConversation' = nextConversation + 1
          /\ UNCHANGED fetches

\* A load effect that reloads the document and leaves history navigation and
\* edit mode as they are.
CanvasLoadEffectKeepsMode(id, store) ==
  IF id # NoPlan
  THEN LET found == FindPlan(GetPlansForUser(store, CurrentUser), id)
       IN /\ plan' = found
          /\ displayPlan' = IF found = NoDoc THEN NoDoc
                            ELSE ResolveDisplay(found, historyIndex, found)
          /\ UNCHANGED <<isEditing, editState, historyIndex, showVersionPanel>>
  ELSE /\ plan' = NoDoc
       /\ displayPlan' = NoDoc
       /\ UNCHANGED <<isEditing, editState, historyIndex, showVersionPanel>>

\* ArtifactCanvas's effect on [planId, currentUser, refreshTrigger], followed by
\* its history navigation effect on [historyIndex, plan].
CanvasLoadEffect(id, store) ==
  IF id # NoPlan
  THEN LET found == FindPlan(GetPlansForUser(store, CurrentUser), id)
       IN /\ plan' = found
          /\ historyIndex' = CurrentView
          /\ isEditing' = FALSE
          /\ displayPlan' = IF found = NoDoc THEN NoDoc
                            ELSE ResolveDisplay(found, CurrentView, found)
          /\ UNCHANGED <<editState, showVersionPanel>>
  ELSE /\ plan' = NoDoc
       /\ displayPlan' = NoDoc
       /\ UNCHANGED <<isEditing, editState, historyIndex, showVersionPanel>>

\* ------------------------------------------------------------- the service
\* data.messages of a chat or history answer: none, one exchange, and an
\* exchange whose human turn is the continuation sentinel.
EmptyTranscript == <<>>

PlainTranscript ==
  <<Raw("human", <<"a">>, NoProgress), Raw("ai", <<"r">>, NoProgress)>>

SentinelTranscript ==
  <<Raw("human", ContinueSentinel, NoProgress), Raw("ai", <<"r">>, StoredProgress)>>

\* The inputs a specification explores: how many sends and selections the user
\* makes, what the user types, and what the service answers.
Scenario(ns, nb, inputs, transcripts, documents, statuses, progress, tasks, histories) ==
  [sends |-> ns, selects |-> nb, inputs |-> inputs,
   transcripts |-> transcripts, documents |-> documents, statuses |-> statuses,
   progress |-> progress, tasks |-> tasks, histories |-> histories]

StoredOwner(store, id) ==
  IF FindPlan(store, id) = NoDoc THEN CurrentUser ELSE FindPlan(store, id).userId

\* The version the service gives the document it returns for a bound plan.
NextVersion(store, id) ==
  IF FindPlan(store, id) = NoDoc THEN 2 ELSE FindPlan(store, id).version + 1

\* data.plan: absent, the next version of the bound document (up to version
\* MaxVersion), or the document the service creates for a conversation that
\* has none.
ServerPlans(req, store) ==
  {NoDoc} \cup
  (IF req.planId # NoPlan
   THEN {Doc(req.planId, StoredOwner(store, req.planId), "Acme", v, "live",
             <<>>, <<Doc(req.planId, StoredOwner(store, req.planId), "Acme", 1,
                         "old", <<>>, <<>>)>>) :
           v \in {NextVersion(store, req.planId)} \cap 1..MaxVersion}
   ELSE {Doc("p2", u, "Beta", 1, "live", <<>>, <<>>) : u \in {CurrentUser, OtherUser}})

\* data.researchStatus.
ServerStatuses == {"researching", "idle"}

\* data.attachedFiles of a history answer.
ServerFileLists == {<<>>, <<File1>>}

\* The body of a successful chat answer.
ChatAnswers(sc, req, store) ==
  [messages : sc.transcripts,
   plan : IF sc.documents THEN ServerPlans(req, store) ELSE {NoDoc},
   researchStatus : sc.statuses, progress : sc.progress,
   researchPlan : sc.tasks]

\* A status mapping that reports research in progress whatever the service says.
NormaliseStatusStuck(raw) == "researching"

\* A status mapping that takes every status but "researching" for research in
\* progress.
NormaliseStatusInverted(raw) == IF raw = "researching" THEN "done" ELSE "researching"

\* apiClient.sendChatMessage: the fields of the value it resolves to.
NormaliseStatus(raw) == IF raw = "researching" THEN "researching" ELSE "done"

ChatResponse(data) ==
  [assistantMessages |-> MapBackendMessages(data.messages),
   updatedPlan |-> data.plan,
   researchStatus |-> NormaliseStatus(data.researchStatus),
   progress |-> data.progress,
   researchPlan |-> data.researchPlan]

\* ----------------------------------------------------------------- Init
InitialDoc == Doc("p1", CurrentUser, "Acme", 1, "live", <<>>, <<>>)

InitWith(store) ==
  /\ selectedPlanId = NoPlan
  /\ messages = <<WelcomeNew>>
  /\ inputValue = <<>>
  /\ isResearching = FALSE
  /\ researchProgress = NoProgress
  /\ researchStartTime = 0
  /\ proposedPlan = NoTasks
  /\ activeResearchPlan = NoTasks
  /\ currentPlan = NoDoc
  /\ tempConversationId = 1
  /\ attachedFiles = <<>>
  /\ availableFiles = <<>>
  /\ mentionQuery = NoMention
  /\ mentionIndex = -1
  /\ latestProgressRef = NoProgress
  /\ cycles = <<>>
  /\ fetches = <<>>
  /\ plan = NoDoc
  /\ displayPlan = NoDoc
  /\ isEditing = FALSE
  /\ showVersionPanel = FALSE
  /\ editState = NoDoc
  /\ historyIndex = CurrentView
  /\ saves = <<>>
  /\ alerts = 0
  /\ planStore = store
  /\ clock = 1
  /\ nextConversation = 2
  /\ selects = 0
  /\ crashed = FALSE

Init == InitWith(<<InitialDoc>>)

\* -------------------------------------------------------------- AppLayout
\* The ids the sidebar lists: the current user's documents in the store.
ListedPlans == {p.id : p \in {GetPlansForUser(planStore, CurrentUser)[i] :
                               i \in 1..Len(GetPlansForUser(planStore, CurrentUser))}}

\* Sidebar: "New Plan" (id = NoPlan) or a click on a listed plan.  Selecting
\* the binding already selected changes no state and runs no effect.
SelectPlan(id) ==
  /\ ~crashed
  /\ id \in ListedPlans \cup {NoPlan}
  /\ id # selectedPlanId
  /\ selectedPlanId' = id
  /\ selects' = selects + 1
  /\ ChatResetEffect(id, planStore)
  /\ CanvasLoadEffect(id, planStore)
  /\ UNCHANGED <<inputValue, researchStartTime, attachedFiles,
                 mentionQuery, mentionIndex, cycles, commitVars, planStore, clock,
                 crashed>>

\* ---------------------------------------------------------- ChatInterface
\* val.lastIndexOf(ch), 0-based, -1 when absent.
LastIndexOf(val, ch) ==
  LET hits == {i \in 1..Len(val) : val[i] = ch}
  IN IF hits = {} THEN -1 ELSE (CHOOSE i \in hits : \A j \in hits : j <= i) - 1

\* val.substring(from, to) for 0 <= from <= to <= length.
Substring(val, from, to) == SubSeq(val, from + 1, to)

Includes(val, ch) == \E i \in 1..Len(val) : val[i] = ch

\* handleInputChange: the text area now holds val with the caret at cursor.
InputChange(val, cursor) ==
  /\ ~crashed
  /\ val # inputValue
  /\ inputValue' = val
  /\ LET lastAt == LastIndexOf(val, At)
         open == /\ lastAt # -1
                 /\ cursor > lastAt
                 /\ ~Includes(Substring(val, lastAt + 1, cursor), Space)
     IN /\ mentionQuery' = IF open THEN Substring(val, lastAt + 1, cursor) ELSE NoMention
        /\ mentionIndex' = IF open THEN lastAt ELSE -1
  /\ UNCHANGED <<appVars, messages, isResearching, researchProgress,
                 researchStartTime, proposedPlan, activeResearchPlan, currentPlan,
                 tempConversationId, attachedFiles, availableFiles,
                 latestProgressRef, asyncVars, canvasVars, commitVars, envVars>>

\* String.prototype.toLowerCase, letter by letter.
LowerChar(ch) ==
  CASE ch = "R" -> "r" [] ch = "E" -> "e" [] ch = "P" -> "p" [] ch = "T" -> "t"
    [] OTHER -> ch

ToLowerCase(text) == [k \in 1..Len(text) |-> LowerChar(text[k])]

\* String.prototype.includes for a text argument.
IncludesText(text, part) ==
  \E k \in 0..(Len(text) - Len(part)) : SubSeq(text, k + 1, k + Len(part)) = part

Min(a, b) == IF a <= b THEN a ELSE b

\* val.substring(from, to) for 0 <= from: both ends are clamped to the length.
SubstringClamped(val, from, to) ==
  IF Min(from, Len(val)) >= Min(to, Len(val)) THEN <<>>
  ELSE SubSeq(val, Min(from, Len(val)) + 1, Min(to, Len(val)))

HasFile(files, id) == \E k \in 1..Len(files) : files[k].id = id

\* allFiles of the suggestion list: the available files, then every attached
\* file whose id is not in the list yet.
RECURSIVE PushMissing(_, _)
PushMissing(all, more) ==
  IF more = <<>> THEN all
  ELSE PushMissing(IF HasFile(all, Head(more).id) THEN all ELSE Append(all, Head(more)),
                   Tail(more))

AllFiles == PushMissing(availableFiles, attachedFiles)

\* mentionQuery || "".
QueryText == IF mentionQuery = NoMention THEN <<>> ELSE mentionQuery

\* A filter that compares the characters as they are.
IsCandidateExact(f) == IncludesText(f.filename, QueryText)

\* The filter of the suggestion list.
IsCandidate(f) == IncludesText(ToLowerCase(f.filename), ToLowerCase(QueryText))

MentionCandidates == FilterSeq(IsCandidate, AllFiles)

\* file.filename || file.name || "file".
MentionName(f) == IF f.filename # <<>> THEN f.filename ELSE <<"f", "i", "l", "e">>

\* A splice that leaves out the blank after the filename.
SplicedInputNoBlank(val, index, query, fname) ==
  SubstringClamped(val, 0, index) \o <<At>> \o fname
    \o SubstringClamped(val, index + Len(query) + 1, Len(val))

\* `${before}@${fname} ${after}`.
SplicedInput(val, index, query, fname) ==
  SubstringClamped(val, 0, index) \o <<At>> \o fname \o <<Space>>
    \o SubstringClamped(val, index + Len(query) + 1, Len(val))

\* handleMentionSelect(f) for an entry f of the suggestion list.
MentionSelect(f) ==
  /\ ~crashed
  /\ \E k \in 1..Len(MentionCandidates) : MentionCandidates[k] = f
  /\ IF mentionIndex = -1
     THEN UNCHANGED vars
     ELSE /\ inputValue' = SplicedInput(inputValue, mentionIndex, QueryText, MentionName(f))
          /\ mentionQuery' = NoMention
          /\ mentionIndex' = -1
          /\ attachedFiles' = IF HasFile(attachedFiles, f.id) THEN attachedFiles
                              ELSE Append(attachedFiles, f)
          /\ UNCHANGED <<appVars, messages, isResearching, researchProgress,
                         researchStartTime, proposedPlan, activeResearchPlan,
                         currentPlan, tempConversationId, availableFiles,
                         latestProgressRef, asyncVars, canvasVars, commitVars,
                         envVars>>

\* uploadFiles: the upload of one file resolves to f.
UploadArrives(f) ==
  /\ ~crashed
  /\ attachedFiles' = Append(attachedFiles, f)
  /\ UNCHANGED <<appVars, messages, inputValue, isResearching, researchProgress,
                 researchStartTime, proposedPlan, activeResearchPlan, currentPlan,
                 tempConversationId, availableFiles, mentionQuery, mentionIndex,
                 latestProgressRef, asyncVars, canvasVars, commitVars, envVars>>

\* A detachment that empties the pending list.
RemoveFileClears(fileId) ==
  /\ ~crashed
  /\ HasFile(attachedFiles, fileId)
  /\ attachedFiles' = <<>>
  /\ UNCHANGED <<appVars, messages, inputValue, isResearching, researchProgress,
                 researchStartTime, proposedPlan, activeResearchPlan, currentPlan,
                 tempConversationId, availableFiles, mentionQuery, mentionIndex,
                 latestProgressRef, asyncVars, canvasVars, commitVars, envVars>>

\* removeFile(fileId), from the button of an attached file.
RemoveFile(fileId) ==
  LET Others(f) == f.id # fileId IN
  /\ ~crashed
  /\ HasFile(attachedFiles, fileId)
  /\ attachedFiles' = FilterSeq(Others, attachedFiles)
  /\ UNCHANGED <<appVars, messages, inputValue, isResearching, researchProgress,
                 researchStartTime, proposedPlan, activeResearchPlan, currentPlan,
                 tempConversationId, availableFiles, mentionQuery, mentionIndex,
                 latestProgressRef, asyncVars, canvasVars, commitVars, envVars>>

\* The conversation id a send uses: the closure's, or a fresh one when the
\* session is unbound and the closure holds none.
MintsConversation(cl) ==
  cl.selectedPlanId = NoPlan /\ cl.tempConversationId = NoConversation

ActiveConversationId(cl) ==
  IF MintsConversation(cl) THEN nextConversation ELSE cl.tempConversationId

\* A request that carries no file id, whatever is pending.
DispatchNoFiles(cl, text) ==
  Request(CurrentUser, cl.selectedPlanId, text,
          IF cl.selectedPlanId # NoPlan THEN NoConversation
          ELSE ActiveConversationId(cl),
          <<>>)

\* A request that carries the binding of the session as it is when the request
\* is built, not the one the handler was created under.
DispatchLiveBinding(cl, text) ==
  Request(CurrentUser, selectedPlanId, text,
          IF selectedPlanId # NoPlan THEN NoConversation ELSE tempConversationId,
          MapSeq(FileId, cl.attachedFiles))

\* The payload handleSendMessage dispatches from closure cl.
Dispatch(cl, text) ==
  Request(CurrentUser, cl.selectedPlanId, text,
          IF cl.selectedPlanId # NoPlan THEN NoConversation
          ELSE ActiveConversationId(cl),
          MapSeq(FileId, cl.attachedFiles))

PromoteNever(proposed, active) == active

\* A pending proposal becomes the active research plan when a visible
\* message is sent; without one the active plan is kept.
Promote(proposed, active) == IF proposed.present THEN proposed ELSE active

\* handleSendMessage(text, false), up to its await: a user-initiated send.
VisibleSend(text) ==
  /\ ~crashed
  /\ Trim(text) # <<>>
  /\ messages' = Append(messages, Message(<<"now", clock>>, "user", text, NoProgress))
  /\ inputValue' = <<>>
  /\ attachedFiles' = <<>>
  /\ researchProgress' = NoProgress
  /\ latestProgressRef' = NoProgress
  /\ activeResearchPlan' = Promote(proposedPlan, activeResearchPlan)
  /\ proposedPlan' = NoTasks
  /\ researchStartTime' = clock
  /\ isResearching' = TRUE
  /\ tempConversationId' = IF MintsConversation(Closure) THEN nextConversation
                           ELSE tempConversationId
  /\ nextConversation' = IF MintsConversation(Closure) THEN nextConversation + 1
                         ELSE nextConversation
  /\ cycles' = Append(cycles, Cycle("inflight", FALSE, Closure, Dispatch(Closure, text)))
  /\ clock' = clock + 1
  /\ UNCHANGED <<appVars, currentPlan, availableFiles, mentionQuery, mentionIndex,
                 fetches, canvasVars, commitVars, planStore, selects, crashed>>

\* handleKeyDown: Enter without Shift sends unless a reference token is open.
KeyDownEnter ==
  /\ mentionQuery = NoMention
  /\ VisibleSend(inputValue)

\* The send button, enabled by its `disabled` expression (no upload runs here).
SendDisabled ==
  (Trim(inputValue) = <<>> /\ Len(attachedFiles) = 0) \/ isResearching

ClickSend ==
  /\ ~SendDisabled
  /\ VisibleSend(inputValue)

\* ResearchPlanPreview is rendered under the last message when that message
\* is an assistant message other than a seeded welcome and a proposal exists.
PreviewShown ==
  /\ proposedPlan.present
  /\ Len(messages) > 0
  /\ messages[Len(messages)].role = "assistant"
  /\ messages[Len(messages)].id \notin {<<"welcome", 0>>, <<"welcome-new", 0>>}

StartDeepSearch ==
  /\ PreviewShown
  /\ VisibleSend(StartDeepSearchText)

\* The continuation timer of cycle i fires: handleSendMessage(sentinel, true)
\* of the render the cycle was started in.
TimerFires(i) ==
  /\ ~crashed
  /\ i \in 1..Len(cycles)
  /\ cycles[i].st = "timer"
  /\ isResearching' = TRUE
  /\ tempConversationId' = IF MintsConversation(cycles[i].cl) THEN nextConversation
                           ELSE tempConversationId
  /\ nextConversation' = IF MintsConversation(cycles[i].cl) THEN nextConversation + 1
                         ELSE nextConversation
  /\ cycles' = [cycles EXCEPT ![i] =
                  Cycle("inflight", TRUE, cycles[i].cl,
                        Dispatch(cycles[i].cl, ContinueSentinel))]
  /\ UNCHANGED <<appVars, messages, inputValue, researchProgress, researchStartTime,
                 proposedPlan, activeResearchPlan, currentPlan, attachedFiles,
                 availableFiles, mentionQuery, mentionIndex, latestProgressRef,
                 fetches, canvasVars, commitVars, planStore, clock, selects,
                 crashed>>

\* The completion marker: the last message, when it is an assistant message,
\* gets the final progress with the elapsed duration.
MarkCompleted(msgs, finalProgress, duration) ==
  IF msgs[Len(msgs)].role = "assistant"
  THEN [msgs EXCEPT ![Len(msgs)].researchProgress =
          [finalProgress EXCEPT !.duration = duration]]
  ELSE msgs

\* The tree is unmounted after an exception in a render: the component state
\* is gone and callbacks still outstanding change nothing any more.
Unmount ==
  /\ crashed' = TRUE
  /\ messages' = <<>>
  /\ isResearching' = FALSE
  /\ researchProgress' = NoProgress
  /\ proposedPlan' = NoTasks
  /\ activeResearchPlan' = NoTasks
  /\ latestProgressRef' = NoProgress
  /\ currentPlan' = NoDoc
  /\ cycles' = [i \in 1..Len(cycles) |-> DoneCycle]
  /\ fetches' = <<>>
  /\ plan' = NoDoc
  /\ displayPlan' = NoDoc
  /\ isEditing' = FALSE
  /\ editState' = NoDoc
  /\ historyIndex' = CurrentView
  /\ showVersionPanel' = FALSE
  /\ UNCHANGED <<inputValue, researchStartTime, tempConversationId, attachedFiles,
                 availableFiles, mentionQuery, mentionIndex, nextConversation,
                 commitVars>>

\* handleSendMessage after its await, for the answer `data` to the request of
\* cycle i.  `caught` chooses, when the completion marker's updater meets an
\* empty transcript and throws, whether the exception surfaces inside the try
\* block (the catch branch runs) or in the next render (the tree unmounts).
SendSucceeds(i, data, caught) ==
  LET c == cycles[i]
      cl == c.cl
      response == ChatResponse(data)
      merged == IF Len(response.assistantMessages) > 0
                THEN MergeTranscript(messages, response.assistantMessages)
                ELSE messages
      hasPlan == response.updatedPlan # NoDoc
      store1 == IF hasPlan THEN SavePlan(planStore, response.updatedPlan) ELSE planStore
      binding == IF hasPlan /\ cl.selectedPlanId = NoPlan
                 THEN response.updatedPlan.id ELSE selectedPlanId
      researching == response.researchStatus = "researching"
      ref1 == IF response.progress # NoProgress THEN response.progress
              ELSE latestProgressRef
      finished == cl.isResearching /\ ~researching /\ ref1 # NoProgress
      throws == finished /\ merged = <<>>
      marked == IF finished /\ ~throws
                THEN MarkCompleted(merged, ref1, clock - cl.researchStartTime)
                ELSE merged
      \* onPlanUpdated() was called: AppLayout's refresh trigger changes, which
      \* re-runs the canvas's load effect.
      refreshed == hasPlan \/ ~(researching \/ throws)
  IN
  /\ ~crashed
  /\ i \in 1..Len(cycles)
  /\ c.st = "inflight"
  /\ ~throws => caught
  /\ IF throws /\ ~caught
     THEN /\ Unmount
          /\ planStore' = store1
          /\ selectedPlanId' = binding
          /\ UNCHANGED <<clock, selects>>
     ELSE /\ planStore' = store1
          /\ selectedPlanId' = binding
          /\ cycles' = [cycles EXCEPT ![i] =
                          IF throws THEN FailedCycle
                          ELSE IF researching THEN [c EXCEPT !.st = "timer"]
                          ELSE DoneCycle]
          /\ clock' = IF throws THEN clock + 1 ELSE clock
          /\ IF binding # selectedPlanId
             THEN ChatResetEffect(binding, store1)
             ELSE /\ messages' = IF throws THEN <<ErrorMessage(clock)>> ELSE marked
                  /\ isResearching' = researching
                  /\ researchProgress' =
                       IF throws THEN NoProgress
                       ELSE IF response.progress # NoProgress THEN response.progress
                       ELSE researchProgress
                  /\ latestProgressRef' = ref1
                  /\ proposedPlan' = IF response.researchPlan.present /\ ~throws
                                     THEN response.researchPlan ELSE proposedPlan
                  /\ currentPlan' = IF hasPlan THEN response.updatedPlan ELSE currentPlan
                  /\ UNCHANGED <<activeResearchPlan, tempConversationId, fetches,
                                 availableFiles, nextConversation>>
          /\ IF binding # selectedPlanId \/ refreshed
             THEN CanvasLoadEffect(binding, store1)
             ELSE UNCHANGED canvasVars
          /\ UNCHANGED <<inputValue, researchStartTime, attachedFiles, mentionQuery,
                         mentionIndex, commitVars, selects, crashed>>

\* A catch branch that rolls the optimistic message back and leaves the
\* research status as it was.
SendFailsRollsBack(i) ==
  /\ ~crashed
  /\ i \in 1..Len(cycles)
  /\ cycles[i].st = "inflight"
  /\ researchProgress' = NoProgress
  /\ messages' = Append(IF messages = <<>> THEN messages
                        ELSE SubSeq(messages, 1, Len(messages) - 1),
                        ErrorMessage(clock))
  /\ clock' = clock + 1
  /\ cycles' = [cycles EXCEPT ![i] = FailedCycle]
  /\ UNCHANGED <<appVars, inputValue, isResearching, researchStartTime, proposedPlan,
                 activeResearchPlan, currentPlan, tempConversationId, attachedFiles,
                 availableFiles, mentionQuery, mentionIndex, latestProgressRef,
                 fetches, canvasVars, commitVars, planStore, nextConversation,
                 selects, crashed>>

\* The request of cycle i fails (no connection, or a status that is not ok):
\* the catch branch of handleSendMessage.
SendFails(i) ==
  /\ ~crashed
  /\ i \in 1..Len(cycles)
  /\ cycles[i].st = "inflight"
  /\ isResearching' = FALSE
  /\ researchProgress' = NoProgress
  /\ messages' = Append(messages, ErrorMessage(clock))
  /\ clock' = clock + 1
  /\ cycles' = [cycles EXCEPT ![i] = FailedCycle]
  /\ UNCHANGED <<appVars, inputValue, researchStartTime, proposedPlan,
                 activeResearchPlan, currentPlan, tempConversationId, attachedFiles,
                 availableFiles, mentionQuery, mentionIndex, latestProgressRef,
                 fetches, canvasVars, commitVars, planStore, nextConversation,
                 selects, crashed>>

RemoveAt(s, j) == SubSeq(s, 1, j - 1) \o SubSeq(s, j + 1, Len(s))

\* A seed that takes the new-session message for a bound session.
SeededWelcomeNew(found) == WelcomeNew

\* The welcome message seeded for a bound session whose history is empty.
SeededWelcome(found) ==
  IF found # NoDoc THEN WelcomeBack(found.company) ELSE WelcomeUnknown

\* getChatHistory of fetch j resolves.  A failed or refused request resolves
\* to an empty history with no files.
HistoryArrives(j, raw, files) ==
  /\ ~crashed
  /\ j \in 1..Len(fetches)
  /\ messages' = IF Len(MapBackendMessages(raw)) > 0 THEN MapBackendMessages(raw)
                 ELSE <<SeededWelcome(fetches[j].plan)>>
  /\ availableFiles' = files
  /\ fetches' = RemoveAt(fetches, j)
  /\ UNCHANGED <<appVars, inputValue, isResearching, researchProgress,
                 researchStartTime, proposedPlan, activeResearchPlan, currentPlan,
                 tempConversationId, attachedFiles, mentionQuery, mentionIndex,
                 latestProgressRef, cycles, canvasVars, commitVars, envVars>>

\* ---------------------------------------------------------- ArtifactCanvas
ListedVersions == {AvailableVersions(plan)[k].actualVersion :
                     k \in 1..Len(AvailableVersions(plan))}

\* The canvas renders its header, its panel and its sections when there is a
\* live document and a document to display: `isEditing ? editState :
\* displayPlan`.
CanvasRendered ==
  /\ ~crashed
  /\ plan # NoDoc
  /\ (IF isEditing THEN editState ELSE displayPlan) # NoDoc

\* A click on the History button, which is rendered while not editing.
OpenVersionPanel ==
  /\ CanvasRendered
  /\ ~isEditing
  /\ ~showVersionPanel
  /\ showVersionPanel' = TRUE
  /\ UNCHANGED <<appVars, chatVars, asyncVars, plan, displayPlan, isEditing,
                 editState, historyIndex, commitVars, envVars>>

\* A click on the panel's backdrop or on its close button.
CloseVersionPanel ==
  /\ CanvasRendered
  /\ showVersionPanel
  /\ showVersionPanel' = FALSE
  /\ UNCHANGED <<appVars, chatVars, asyncVars, plan, displayPlan, isEditing,
                 editState, historyIndex, commitVars, envVars>>

\* A click on the entry of version v in the version panel, and the history
\* navigation effect that follows it.  The panel is rendered while
\* showVersionPanel holds, in edit mode as well: the header's buttons stay
\* reachable from the keyboard while it is open.
SelectVersion(v) ==
  /\ CanvasRendered
  /\ showVersionPanel
  /\ v \in ListedVersions
  /\ historyIndex' = SelectedPointer(plan, v)
  /\ showVersionPanel' = FALSE
  /\ displayPlan' = ResolveDisplay(plan, SelectedPointer(plan, v), displayPlan)
  /\ UNCHANGED <<appVars, chatVars, asyncVars, plan, isEditing, editState,
                 commitVars, envVars>>

\* An edit buffer that keeps the sections of the document and nothing else.
EditBufferSectionsOnly(doc) == Doc(NoPlan, "", "", 0, "", doc.sections, <<>>)

\* JSON.parse(JSON.stringify(plan)): a document read from localStorage or from
\* a JSON response holds JSON values only, so the copy has every field of the
\* original with an equal value.
EditBuffer(doc) ==
  [doc EXCEPT !.sections =
     [k \in 1..Len(doc.sections) |->
        Section(doc.sections[k].title, doc.sections[k].content)]]

\* handleStartEdit (the button is rendered while not editing), and the history
\* navigation effect that follows the change of the pointer.
StartEdit ==
  /\ ~crashed
  /\ ~isEditing
  /\ IF plan = NoDoc
     THEN UNCHANGED vars
     ELSE /\ editState' = EditBuffer(plan)
          /\ isEditing' = TRUE
          /\ historyIndex' = CurrentView
          /\ displayPlan' = ResolveDisplay(plan, CurrentView, displayPlan)
          /\ UNCHANGED <<appVars, chatVars, asyncVars, plan, showVersionPanel,
                         commitVars, envVars>>

\* A cancel that leaves edit mode and keeps the edit buffer.
CancelEditKeepsBuffer ==
  /\ ~crashed
  /\ isEditing
  /\ isEditing' = FALSE
  /\ UNCHANGED <<appVars, chatVars, asyncVars, plan, displayPlan, editState,
                 historyIndex, showVersionPanel, commitVars, envVars>>

\* handleCancelEdit (the button is rendered while editing).
CancelEdit ==
  /\ ~crashed
  /\ isEditing
  /\ isEditing' = FALSE
  /\ editState' = NoDoc
  /\ UNCHANGED <<appVars, chatVars, asyncVars, plan, displayPlan, historyIndex,
                 showVersionPanel, commitVars, envVars>>

\* A replacement that keeps the edited section and drops the others.
WithSectionContentOnly(doc, index, newContent) ==
  [doc EXCEPT !.sections = <<Section(doc.sections[index + 1].title, newContent)>>]

\* { ...editState, sections: newSections } with newSections[index] replaced by
\* { ...newSections[index], content: newContent }; index is 0-based.
WithSectionContent(doc, index, newContent) ==
  [doc EXCEPT !.sections =
     [k \in 1..Len(doc.sections) |->
        IF k = index + 1 THEN Section(doc.sections[k].title, newContent)
        ELSE doc.sections[k]]]

\* updateSectionContent(index, newContent): the editor of section index of the
\* edit buffer (rendered while editing) reports a change.
UpdateSectionContent(index, newContent) ==
  /\ ~crashed
  /\ isEditing
  /\ IF editState = NoDoc
     THEN UNCHANGED vars
     ELSE /\ index \in 0..(Len(editState.sections) - 1)
          /\ editState' = WithSectionContent(editState, index, newContent)
          /\ UNCHANGED <<appVars, chatVars, asyncVars, plan, displayPlan,
                         isEditing, historyIndex, showVersionPanel, commitVars,
                         envVars>>

\* An updatePlan request in flight: the id in its URL, and the `editState` of
\* the render handleSaveEdit ran in.
SaveRequest(planId, doc) == [planId |-> planId, doc |-> doc]

\* handleSaveEdit up to its await (the button is rendered while editing), and
\* the history navigation effect that follows the change of `plan`.
SaveEdit ==
  /\ ~crashed
  /\ isEditing
  /\ IF editState = NoDoc \/ plan = NoDoc
     THEN UNCHANGED vars
     ELSE /\ plan' = editState
          /\ displayPlan' = ResolveDisplay(editState, historyIndex, editState)
          /\ isEditing' = FALSE
          /\ saves' = Append(saves, SaveRequest(plan.id, editState))
          /\ UNCHANGED <<appVars, chatVars, asyncVars, editState, historyIndex,
                         showVersionPanel, alerts, envVars>>

\* updatePlan of save k resolves: handleSaveEdit after its await.  The value
\* it resolves to is dropped.
SaveSucceeds(k) ==
  /\ k \in 1..Len(saves)
  /\ planStore' = SavePlan(planStore, saves[k].doc)
  /\ saves' = RemoveAt(saves, k)
  /\ UNCHANGED <<appVars, chatVars, asyncVars, canvasVars, alerts, clock,
                 nextConversation, selects, crashed>>

\* A catch branch that takes the optimistic replacement back.
SaveFailsRollsBack(k) ==
  /\ k \in 1..Len(saves)
  /\ alerts' = alerts + 1
  /\ saves' = RemoveAt(saves, k)
  /\ plan' = FindPlan(planStore, saves[k].planId)
  /\ displayPlan' = FindPlan(planStore, saves[k].planId)
  /\ UNCHANGED <<appVars, chatVars, asyncVars, isEditing, editState, historyIndex,
                 showVersionPanel, envVars>>

\* updatePlan of save k rejects (no connection, or a status that is not ok):
\* the catch branch of handleSaveEdit.
SaveFails(k) ==
  /\ k \in 1..Len(saves)
  /\ alerts' = alerts + 1
  /\ saves' = RemoveAt(saves, k)
  /\ UNCHANGED <<appVars, chatVars, asyncVars, canvasVars, envVars>>

\* ------------------------------------------------------------------- Spec
\* One step of the session controller under scenario sc, the proposal's
\* button apart.
Turn(sc) ==
  \/ \E id \in PlanIds \cup {NoPlan} : selects < sc.selects /\ SelectPlan(id)
  \/ \E val \in sc.inputs : InputChange(val, Len(val))
  \/ Len(cycles) < sc.sends /\ KeyDownEnter
  \/ Len(cycles) < sc.sends /\ ClickSend
  \/ \E i \in 1..Len(cycles) : TimerFires(i)
  \/ \E i \in 1..Len(cycles) :
       \E data \in ChatAnswers(sc, cycles[i].req, planStore) :
         \E caught \in BOOLEAN : SendSucceeds(i, data, caught)
  \/ \E i \in 1..Len(cycles) : SendFails(i)
  \/ \E j \in 1..Len(fetches) : \E raw \in sc.histories :
       \E files \in ServerFileLists : HistoryArrives(j, raw, files)

\* One step of the session controller under scenario sc.
Step(sc) ==
  \/ Turn(sc)
  \/ Len(cycles) < sc.sends /\ StartDeepSearch

\* Two concurrent sends and two selections against a service that returns no
\* documents.
ControlScenario ==
  Scenario(MaxSends, MaxSelects, {<<"a">>}, {PlainTranscript}, FALSE,
           ServerStatuses, {NoProgress, ServerProgress}, {NoTasks, ServerTasks},
           {EmptyTranscript})

Next == Step(ControlScenario)

Spec == Init /\ [][Next]_vars

\* One send and one selection against a service that returns no documents.
SessionScenario ==
  Scenario(SessionSends, SessionSelects, {<<"a">>}, {PlainTranscript}, FALSE,
           ServerStatuses, {NoProgress, ServerProgress}, {NoTasks, ServerTasks},
           {EmptyTranscript})

SessionNext == Turn(SessionScenario)

SessionSpec == Init /\ [][SessionNext]_vars

\* One send and one selection against a service that reports a status and
\* nothing else.
FairScenario ==
  Scenario(SessionSends, SessionSelects, {<<"a">>}, {PlainTranscript}, FALSE,
           ServerStatuses, {NoProgress}, {NoTasks}, {EmptyTranscript})

FairNext == Turn(FairScenario)

\* The request of cycle i completes, one way or the other.
Completion(i) ==
  \/ \E data \in ChatAnswers(FairScenario, NoRequest, planStore) :
       \E caught \in BOOLEAN : SendSucceeds(i, data, caught)
  \/ SendFails(i)

\* The request of cycle i fails or is answered with a status other than
\* "researching".
LoopEnds(i) ==
  \/ \E data \in ChatAnswers(FairScenario, NoRequest, planStore) :
       \E caught \in BOOLEAN :
         data.researchStatus # "researching" /\ SendSucceeds(i, data, caught)
  \/ SendFails(i)

\* Requests complete and armed timers fire (weak fairness); the service does
\* not answer "researching" for ever (strong fairness of LoopEnds).
FairSpec ==
  /\ Init
  /\ [][FairNext]_vars
  /\ \A i \in 1..SessionSends :
       WF_vars(TimerFires(i)) /\ WF_vars(Completion(i)) /\ SF_vars(LoopEnds(i))

\* One send and one selection, every kind of transcript, and a user who may
\* type the sentinel.
TranscriptScenario ==
  Scenario(SessionSends, SessionSelects, {<<"a">>, <<Space, ContinueToken>>},
           {EmptyTranscript, PlainTranscript, SentinelTranscript}, FALSE,
           ServerStatuses, {NoProgress, ServerProgress}, {NoTasks},
           {EmptyTranscript, SentinelTranscript})

TranscriptNext == Turn(TranscriptScenario)

TranscriptSpec == Init /\ [][TranscriptNext]_vars

\* A service that creates and updates documents and never reports research in
\* progress: no continuation is armed and no plan is proposed.
BindingScenario ==
  Scenario(SessionSends, SessionSelects, {<<"a">>}, {PlainTranscript}, TRUE,
           {"idle"}, {NoProgress}, {NoTasks}, {EmptyTranscript, PlainTranscript})

BindingNext ==
  \/ \E id \in PlanIds \cup {NoPlan} :
       selects < BindingScenario.selects /\ SelectPlan(id)
  \/ \E val \in BindingScenario.inputs : InputChange(val, Len(val))
  \/ Len(cycles) < BindingScenario.sends /\ KeyDownEnter
  \/ Len(cycles) < BindingScenario.sends /\ ClickSend
  \/ \E i \in 1..Len(cycles) :
       \E data \in ChatAnswers(BindingScenario, cycles[i].req, planStore) :
         \E caught \in BOOLEAN : SendSucceeds(i, data, caught)
  \/ \E i \in 1..Len(cycles) : SendFails(i)
  \/ \E j \in 1..Len(fetches) : \E raw \in BindingScenario.histories :
       \E files \in ServerFileLists : HistoryArrives(j, raw, files)

BindingSpec == Init /\ [][BindingNext]_vars

\* ------------------------------------------------- claims on the controller
\* C1: when the continuation timer of a cycle fires under a binding other than
\* the one the cycle was started for, the firing is a no-op: no request is
\* dispatched and transcript, research status, progress snapshot and proposed
\* plan of the active session are unchanged.
StaleContinuationIsNoOp ==
  [][\A i \in 1..MaxSends :
       (TimerFires(i) /\ cycles[i].cl.selectedPlanId # selectedPlanId) =>
         /\ cycles'[i].st # "inflight"
         /\ UNCHANGED <<messages, isResearching, researchProgress, proposedPlan>>]_vars

\* C3: at most one send cycle is active at a time: never a second request in
\* flight or continuation pending while another one is.
SingleSendCycle == Cardinality(ActiveCycles) <= 1

\* C2: under FairSpec every send cycle that is active for binding b leads to
\* a state where research status is not researching and no request is in
\* flight and no continuation pending, or where the binding is no longer b.
LoopsStop ==
  \A i \in 1..SessionSends : \A b \in PlanIds \cup {NoPlan} :
    (i <= Len(cycles) /\ Active(cycles[i]) /\ cycles[i].cl.selectedPlanId = b)
      ~> ((~isResearching /\ ActiveCycles = {}) \/ selectedPlanId # b)

LoopsStopWitness ==
  \E i \in 1..Len(cycles) :
    /\ cycles[i].st = "inflight"
    /\ cycles[i].hidden
    /\ cycles[i].cl.selectedPlanId = selectedPlanId
    /\ isResearching

ErrorText == <<"Sorry, I encountered an error">>

\* C6: a failed dispatch leaves research status idle and no progress snapshot,
\* appends exactly one assistant error message after the transcript as it was
\* (every earlier message kept, in order), and schedules nothing: the failed
\* cycle is over and no other cycle changes.
FailureRecovers ==
  [][\A i \in 1..Len(cycles) :
       SendFails(i) =>
         /\ ~isResearching'
         /\ researchProgress' = NoProgress
         /\ Len(messages') = Len(messages) + 1
         /\ SubSeq(messages', 1, Len(messages)) = messages
         /\ messages'[Len(messages')].role = "assistant"
         /\ messages'[Len(messages')].content = ErrorText
         /\ Len(cycles') = Len(cycles)
         /\ ~Active(cycles'[i])
         /\ \A k \in 1..Len(cycles) : k # i => cycles'[k] = cycles[k]]_vars

FailureRecoversWitness ==
  /\ \E i \in 1..Len(cycles) : cycles[i].st = "failed"
  /\ Len(messages) >= 2
  /\ messages[Len(messages)].content = ErrorText
  /\ messages[Len(messages) - 1].role = "user"
  /\ ~isResearching
  /\ researchProgress = NoProgress

NoSentinelShown ==
  \A k \in 1..Len(Displayed(messages)) :
    ~(/\ Displayed(messages)[k].role = "user"
      /\ Displayed(messages)[k].content = ContinueSentinel)

\* C4: the continuation sentinel is never visible: a hidden send leaves the
\* transcript as it is, and in every state no displayed entry is a user message
\* whose content is the sentinel, whatever transcript the service returned.
SentinelNeverShown ==
  /\ NoSentinelShown
  /\ [][/\ NoSentinelShown'
        /\ \A i \in 1..Len(cycles) : TimerFires(i) => messages' = messages]_vars

SentinelNeverShownWitness ==
  /\ \E k \in 1..Len(messages) :
       messages[k].role = "user" /\ messages[k].content = ContinueSentinel
  /\ Len(Displayed(messages)) < Len(messages)
  /\ \E i \in 1..Len(cycles) : cycles[i].st = "inflight" /\ cycles[i].hidden

Annotated(msgs, id) ==
  \E k \in 1..Len(msgs) : msgs[k].id = id /\ msgs[k].researchProgress # NoProgress

\* C5: whatever transcript the service returns next, reconciling it with the
\* local transcript keeps id, role and content of every authoritative message;
\* one without researchProgress whose id is that of an annotated local message
\* gets that local researchProgress, duration included; one whose id matches no
\* annotated local message is exactly the authoritative message.
MergePreservesAnnotations ==
  \A raw \in TranscriptScenario.transcripts :
    LET auth == MapBackendMessages(raw)
        merged == MergeTranscript(messages, auth)
    IN /\ Len(merged) = Len(auth)
       /\ \A k \in 1..Len(auth) :
            /\ merged[k].id = auth[k].id
            /\ merged[k].role = auth[k].role
            /\ merged[k].content = auth[k].content
            /\ (auth[k].researchProgress = NoProgress /\ Annotated(messages, auth[k].id)) =>
                 /\ merged[k].researchProgress # NoProgress
                 /\ \E j \in 1..Len(messages) :
                      /\ messages[j].id = auth[k].id
                      /\ merged[k].researchProgress = messages[j].researchProgress
            /\ ~Annotated(messages, auth[k].id) => merged[k] = auth[k]

\* A transcript only a reconciliation produces: the service's plain exchange
\* carrying the progress the local copy of the second message had.
MergePreservesAnnotationsWitness ==
  /\ Len(messages) = 2
  /\ messages[1].content = <<"a">>
  /\ messages[2].id = <<"msg", 1>>
  /\ messages[2].researchProgress = StoredProgress
  /\ \E i \in 1..Len(cycles) : cycles[i].st \in {"done", "timer"}

Companies == {"Acme", "Beta"}

\* C8 as claimed: an empty history seeds exactly one welcome message whose
\* variant depends on the binding alone: the existing-plan message for every
\* bound session, the new-session message for every unbound one.
WelcomeByBindingAlone ==
  [][/\ \A j \in 1..Len(fetches) : \A files \in ServerFileLists :
          HistoryArrives(j, EmptyTranscript, files) =>
            \E company \in Companies : messages' = <<WelcomeBack(company)>>
     /\ (selectedPlanId' # selectedPlanId /\ selectedPlanId' = NoPlan) =>
          messages' = <<WelcomeNew>>]_vars

\* C8 as amended: an empty history seeds exactly one assistant message whose
\* id depends on the binding alone ("welcome" when bound, "welcome-new" when
\* unbound); the content of the bound one names the company when the plan was
\* found in the user's store at the switch and is a generic greeting otherwise.
WelcomeByBindingAndStore ==
  [][/\ \A j \in 1..Len(fetches) : \A files \in ServerFileLists :
          HistoryArrives(j, EmptyTranscript, files) =>
            /\ Len(messages') = 1
            /\ messages'[1].id = <<"welcome", 0>>
            /\ messages'[1].role = "assistant"
            /\ messages'[1].content =
                 IF fetches[j].plan # NoDoc
                 THEN <<"Welcome back!", fetches[j].plan.company>>
                 ELSE <<"Welcome!">>
     /\ (selectedPlanId' # selectedPlanId /\ selectedPlanId' = NoPlan) =>
          /\ Len(messages') = 1
          /\ messages'[1].id = <<"welcome-new", 0>>
          /\ messages'[1].role = "assistant"]_vars

WelcomeByBindingAndStoreWitness ==
  /\ selectedPlanId # NoPlan
  /\ FindPlan(GetPlansForUser(planStore, CurrentUser), selectedPlanId) = NoDoc
  /\ messages = <<WelcomeUnknown>>

\* A step in which handleSendMessage is invoked: a visible send starts a
\* cycle, a hidden one is the firing of a cycle's timer.
SendInvoked ==
  \/ Len(cycles') = Len(cycles) + 1
  \/ \E i \in 1..Len(cycles) : TimerFires(i)

\* A step in which the answer to the request of cycle i is processed to the
\* end, in a session that stays bound as it is.
Processed(i, data) ==
  /\ \E caught \in BOOLEAN : SendSucceeds(i, data, caught)
  /\ selectedPlanId' = selectedPlanId
  /\ cycles'[i].st # "failed"
  /\ ~crashed'

Reported(i) == ChatAnswers(SessionScenario, cycles[i].req, planStore)

\* C17 as claimed: session re-initialisation and the failure path apart,
\* research status changes only when a response is processed, becoming
\* researching iff the response reports researching; an invocation of
\* sendMessage, visible or hidden, leaves it as it is.
StatusByResponseOnly ==
  [][/\ SendInvoked => isResearching' = isResearching
     /\ \A i \in 1..Len(cycles) : \A data \in Reported(i) :
          Processed(i, data) =>
            isResearching' = (data.researchStatus = "researching")]_vars

\* C17 as amended: session re-initialisation and the failure path apart,
\* research status changes only when sendMessage is invoked, visible or
\* hidden, which makes it researching, or when a response is processed, after
\* which it is researching iff the response reports researching.
StatusBySendAndResponse ==
  [][/\ isResearching' # isResearching =>
          \/ selectedPlanId' # selectedPlanId
          \/ \E i \in 1..Len(cycles) : SendFails(i)
          \/ SendInvoked
          \/ \E i \in 1..Len(cycles) : \E data \in Reported(i) : Processed(i, data)
     /\ SendInvoked => isResearching'
     /\ \A i \in 1..Len(cycles) : \A data \in Reported(i) :
          Processed(i, data) =>
            isResearching' = (data.researchStatus = "researching")]_vars

\* A response that reported researching has been processed and the hidden
\* send that followed it is in flight.
StatusBySendAndResponseWitness ==
  /\ isResearching
  /\ Len(messages) = 2
  /\ messages[1].id = <<"msg", 0>>
  /\ \E i \in 1..Len(cycles) :
       /\ cycles[i].st = "inflight"
       /\ cycles[i].hidden
       /\ ~cycles[i].cl.isResearching

\* The progress snapshot available when data is processed.
AvailableSnapshot(data) ==
  IF data.progress # NoProgress THEN data.progress ELSE latestProgressRef

LastAssistant(msgs) ==
  msgs[CHOOSE k \in 1..Len(msgs) :
         /\ msgs[k].role = "assistant"
         /\ \A j \in 1..Len(msgs) : msgs[j].role = "assistant" => j <= k]

\* C18: when the session is researching because of a send for the active
\* binding and the response processed reports a status other than researching
\* with a progress snapshot available, the most recent assistant message then
\* carries that snapshot with the time elapsed since the start time the send
\* recorded as its duration.
CompletionIsMarked ==
  [][\A i \in 1..Len(cycles) : \A data \in Reported(i) :
       (/\ Processed(i, data)
        /\ isResearching
        /\ cycles[i].cl.selectedPlanId = selectedPlanId
        /\ data.researchStatus # "researching"
        /\ AvailableSnapshot(data) # NoProgress) =>
         /\ \E k \in 1..Len(messages') : messages'[k].role = "assistant"
         /\ LastAssistant(messages').researchProgress =
              [AvailableSnapshot(data) EXCEPT !.duration = clock - researchStartTime]]_vars

Answers(i) == ChatAnswers(TranscriptScenario, cycles[i].req, planStore)

\* The transcript holds the messages of data.messages and nothing else: same
\* length and order, ids by position, roles and contents as sent.
IsAuthoritative(msgs, raw) ==
  /\ Len(msgs) = Len(raw)
  /\ \A k \in 1..Len(raw) :
       /\ msgs[k].id = <<"msg", k - 1>>
       /\ msgs[k].content = raw[k].content
       /\ msgs[k].role = IF raw[k].role \in {"ai", "assistant"} THEN "assistant"
                         ELSE "user"

\* C19 as claimed: after a successful response is processed the transcript is
\* exactly the authoritative transcript of that response, an empty one
\* included.
TranscriptReplacedAlways ==
  [][\A i \in 1..Len(cycles) : \A data \in Answers(i) :
       Processed(i, data) => IsAuthoritative(messages', data.messages)]_vars

\* C19 as amended: after a successful response that does not rebind the
\* session is processed, the transcript is exactly the authoritative
\* transcript of that response when that one is not empty; a response whose
\* authoritative transcript is empty removes and replaces no message of the
\* local transcript.
TranscriptReplacedUnlessEmpty ==
  [][\A i \in 1..Len(cycles) : \A data \in Answers(i) :
       \A caught \in BOOLEAN :
         (SendSucceeds(i, data, caught) /\ selectedPlanId' = selectedPlanId) =>
           IF data.messages # <<>>
           THEN IsAuthoritative(messages', data.messages)
           ELSE /\ Len(messages') >= Len(messages)
                /\ \A k \in 1..Len(messages) :
                     /\ messages'[k].id = messages[k].id
                     /\ messages'[k].role = messages[k].role
                     /\ messages'[k].content = messages[k].content]_vars

\* The authoritative exchange has replaced the welcome message and the
\* optimistic user message.
TranscriptReplacedUnlessEmptyWitness ==
  /\ \E i \in 1..Len(cycles) : cycles[i].st \in {"done", "timer"}
  /\ Len(messages) = 2
  /\ messages[1].id = <<"msg", 0>>
  /\ messages[1].role = "user"
  /\ messages[1].content = ContinueSentinel
  /\ messages[2].id = <<"msg", 1>>
  /\ messages[2].role = "assistant"

\* Two sends in one session against a service that proposes task lists and
\* may create the document of an unbound session; the user selects nothing.
ProposalScenario ==
  Scenario(ProposalSends, 0, {<<"a">>}, {PlainTranscript}, TRUE, ServerStatuses,
           {NoProgress}, {NoTasks, ServerTasks}, {EmptyTranscript})

\* The answers of this scenario to the request of cycle i: the service
\* creates the document of an unbound session for the current user and does
\* not revise the document of a bound one.
Proposals(i) ==
  {data \in ChatAnswers(ProposalScenario, cycles[i].req, planStore) :
     /\ cycles[i].req.planId = NoPlan \/ data.plan = NoDoc
     /\ data.plan # NoDoc => data.plan.userId = CurrentUser}

ProposalNext ==
  \/ \E val \in ProposalScenario.inputs : InputChange(val, Len(val))
  \/ Len(cycles) < ProposalScenario.sends /\ KeyDownEnter
  \/ Len(cycles) < ProposalScenario.sends /\ ClickSend
  \/ Len(cycles) < ProposalScenario.sends /\ StartDeepSearch
  \/ \E i \in 1..Len(cycles) : TimerFires(i)
  \/ \E i \in 1..Len(cycles) : \E data \in Proposals(i) :
       \E caught \in BOOLEAN : SendSucceeds(i, data, caught)
  \/ \E i \in 1..Len(cycles) : SendFails(i)
  \/ \E j \in 1..Len(fetches) : \E raw \in ProposalScenario.histories :
       HistoryArrives(j, raw, <<>>)

ProposalSpec == Init /\ [][ProposalNext]_vars

Snapshot(v) == Doc("p1", CurrentUser, "Acme", v, "old", <<>>, <<>>)

Histories ==
  UNION {[1..n -> {Snapshot(v) : v \in 1..MaxVersion}] : n \in 0..MaxHistory}

StoredDocs ==
  {Doc("p1", CurrentUser, "Acme", v, "live", <<>>, h) :
     v \in 1..MaxVersion, h \in Histories}

CanvasInit == \E doc \in StoredDocs : InitWith(<<doc>>)

CanvasNext ==
  \/ \E id \in PlanIds \cup {NoPlan} : selects < CanvasSelects /\ SelectPlan(id)
  \/ \E j \in 1..Len(fetches) : HistoryArrives(j, EmptyTranscript, <<>>)
  \/ \E v \in 1..MaxVersion : SelectVersion(v)
  \/ OpenVersionPanel
  \/ CloseVersionPanel
  \/ StartEdit
  \/ CancelEdit

CanvasSpec == CanvasInit /\ [][CanvasNext]_vars

HistoryVersions(doc) == {doc.history[k].version : k \in 1..Len(doc.history)}

\* C9: the version list of a loaded live document has one entry per distinct
\* version of its history and itself, strictly ascending, exactly one entry
\* marked current, namely the live version with the live document's data;
\* snapshots 1, 3, 5 under live version 5 give three entries with 5 current.
VersionListing ==
  plan # NoDoc =>
    LET list == AvailableVersions(plan)
        H == HistoryVersions(plan) \cup {plan.version}
        idx == 1..Len(list)
    IN /\ Len(list) = Cardinality(H)
       /\ {list[k].actualVersion : k \in idx} = H
       /\ \A k \in idx : k < Len(list) =>
             list[k].actualVersion < list[k + 1].actualVersion
       /\ Cardinality({k \in idx : list[k].isCurrent}) = 1
       /\ \A k \in idx : list[k].isCurrent <=> list[k].actualVersion = plan.version
       /\ \A k \in idx : list[k].isCurrent => list[k].updatedAt = plan.updatedAt
       /\ \A k \in idx : ~list[k].isCurrent => list[k].updatedAt = "old"
       /\ (HistoryVersions(plan) = {1, 3, 5} /\ plan.version = 5) =>
             /\ Len(list) = 3
             /\ [k \in idx |-> list[k].actualVersion] = <<1, 3, 5>>
             /\ list[3].isCurrent

VersionListingWitness ==
  /\ plan # NoDoc
  /\ plan.version = 5
  /\ [k \in 1..Len(plan.history) |-> plan.history[k].version] = <<1, 3, 5>>
  /\ Len(AvailableVersions(plan)) = 3

\* C10: a click on the entry of the live version leaves the view pointer at
\* the sentinel CurrentView with the live document displayed, and changes no
\* state but the panel's when the view was already current; a click on any
\* other listed version v leaves the pointer at v.
PointerNormalises ==
  [][\A v \in 1..MaxVersion :
       SelectVersion(v) =>
         /\ v = plan.version =>
               /\ historyIndex' = CurrentView
               /\ displayPlan' = plan
               /\ historyIndex = CurrentView =>
                    UNCHANGED <<appVars, chatVars, asyncVars, plan, displayPlan,
                                isEditing, editState, historyIndex, commitVars,
                                envVars>>
         /\ v # plan.version => historyIndex' = v]_vars

PointerNormalisesWitness ==
  /\ plan # NoDoc
  /\ historyIndex \in ListedVersions \ {plan.version}
  /\ displayPlan # plan

\* ----------------------------------------------------- the editing protocol
SectionContents == {"c0", "c1"}

\* A stored document of version 2 with two sections and one snapshot.
EditDoc ==
  Doc("p1", CurrentUser, "Acme", 2, "live",
      <<Section("s1", "c0"), Section("s2", "c0")>>,
      <<Doc("p1", CurrentUser, "Acme", 1, "old", <<Section("s1", "c0")>>, <<>>)>>)

EditInit == InitWith(<<EditDoc>>)

\* The handlers of the canvas, with at most MaxPendingSaves updatePlan requests
\* in flight and at most MaxAlerts failures.
EditStep ==
  \/ \E v \in 1..MaxVersion : SelectVersion(v)
  \/ OpenVersionPanel
  \/ CloseVersionPanel
  \/ StartEdit
  \/ CancelEdit
  \/ \E index \in 0..1 : \E c \in SectionContents : UpdateSectionContent(index, c)
  \/ Len(saves) < MaxPendingSaves /\ SaveEdit
  \/ \E k \in 1..Len(saves) : SaveSucceeds(k)
  \/ \E k \in 1..Len(saves) : alerts < MaxAlerts /\ SaveFails(k)

EditNext ==
  \/ \E id \in PlanIds \cup {NoPlan} : selects < CanvasSelects /\ SelectPlan(id)
  \/ \E j \in 1..Len(fetches) : HistoryArrives(j, EmptyTranscript, <<>>)
  \/ EditStep

EditSpec == EditInit /\ [][EditNext]_vars

\* C11: starting an edit with a live document leaves the view pointer at
\* current, edit mode on and the edit buffer equal to the live document in
\* every field, with the live document displayed; every section edit changes
\* the buffer only and leaves the live and the displayed document as they were;
\* with no live document starting an edit changes nothing.
EditIsIsolated ==
  [][/\ (StartEdit /\ plan # NoDoc) =>
          /\ historyIndex' = CurrentView
          /\ isEditing'
          /\ editState' = plan
          /\ plan' = plan
          /\ displayPlan' = plan
     /\ (StartEdit /\ plan = NoDoc) => UNCHANGED vars
     /\ \A index \in 0..1 : \A c \in SectionContents :
          UpdateSectionContent(index, c) =>
            /\ plan' = plan
            /\ displayPlan' = displayPlan
            /\ planStore' = planStore
            /\ isEditing']_vars

\* An edit started from a historical view, with both sections edited since.
EditIsIsolatedWitness ==
  /\ isEditing
  /\ plan = EditDoc
  /\ displayPlan = EditDoc
  /\ historyIndex = CurrentView
  /\ editState.sections = <<Section("s1", "c1"), Section("s2", "c1")>>
  /\ editState.version = plan.version

\* C12: a commit leaves edit mode off and the live and the displayed document
\* equal to the edit buffer in every field, version included; when its
\* persistence request succeeds the local plan store's entry for the plan's id
\* becomes the edit buffer, and the completion changes nothing in the canvas.
CommitRoundTrip ==
  [][/\ (SaveEdit /\ editState # NoDoc /\ plan # NoDoc) =>
          /\ ~isEditing'
          /\ plan' = editState
          /\ displayPlan' = editState
          /\ plan'.version = editState.version
          /\ plan'.version = plan.version
     /\ \A k \in 1..Len(saves) :
          SaveSucceeds(k) =>
            /\ FindPlan(planStore', saves[k].planId) = saves[k].doc
            /\ UNCHANGED canvasVars]_vars

\* C13: a failed persistence request shows one alert, leaves the live and the
\* displayed document and edit mode as the commit left them, and leaves the
\* local plan store as it was.
CommitFailureKeeps ==
  [][\A k \in 1..Len(saves) :
       SaveFails(k) =>
         /\ alerts' = alerts + 1
         /\ UNCHANGED <<plan, displayPlan, isEditing, planStore>>]_vars

CommitFailureKeepsWitness ==
  /\ alerts > 0
  /\ saves = <<>>
  /\ ~isEditing
  /\ plan = editState
  /\ displayPlan = editState
  /\ plan # EditDoc
  /\ FindPlan(planStore, plan.id) = EditDoc

\* ------------------------------------------- commits next to a sending session
\* One send against a service that returns documents, next to the canvas.
RaceNext ==
  \/ BindingNext
  \/ EditStep

RaceSpec == EditInit /\ [][RaceNext]_vars

StoredVersion(store, id) == FindPlan(store, id).version

\* C14: no step replaces the local plan store's entry of a plan id, or the
\* live document of the canvas while it stays on the same plan id, by a
\* document with a smaller version.
VersionNeverDecreases ==
  [][/\ \A id \in PlanIds :
          (FindPlan(planStore, id) # NoDoc /\ FindPlan(planStore', id) # NoDoc) =>
            StoredVersion(planStore', id) >= StoredVersion(planStore, id)
     /\ (plan # NoDoc /\ plan' # NoDoc /\ plan'.id = plan.id) =>
          plan'.version >= plan.version]_vars

\* ------------------------------------------------------- reference tokens
Report == [id |-> "1", filename |-> <<"r", "e", "p", "o", "r", "t", ".", "p", "d", "f">>]

Notes == [id |-> "2", filename |-> <<"n", "o", "t", "e", "s", ".", "t", "x", "t">>]

SeeRep == <<"s", "e", "e", Space, At, "r", "e", "p">>

SeeReport ==
  <<"s", "e", "e", Space, At, "r", "e", "p", "o", "r", "t", ".", "p", "d", "f", Space>>

\* What the user leaves in the text area, as <<text, caret>>.
MentionInputs ==
  {<<SeeRep, 8>>, <<SeeRep, 6>>, <<SeeRep \o <<Space, "x">>, 8>>,
   <<<<At, "R", "E", "P">>, 4>>, <<<<"a", At, "n", At, "t">>, 5>>,
   <<<<At>>, 1>>, <<<<At, "T">>, 2>>, <<<<"a">>, 1>>}

MentionNext ==
  \/ \E id \in PlanIds \cup {NoPlan} : selects < SessionSelects /\ SelectPlan(id)
  \/ \E j \in 1..Len(fetches) : \E files \in {<<>>, <<Report>>, <<Report, Notes>>} :
       HistoryArrives(j, EmptyTranscript, files)
  \/ \E entry \in MentionInputs : InputChange(entry[1], entry[2])
  \/ \E f \in {Report, Notes} : MentionSelect(f)
  \/ \E f \in {Report, Notes} :
       /\ Len(attachedFiles) < MaxAttached
       /\ ~HasFile(attachedFiles, f.id)
       /\ UploadArrives(f)
  \/ \E f \in {Report, Notes} : RemoveFile(f.id)

MentionSpec == Init /\ [][MentionNext]_vars

\* The reference token the suggestion state describes is in the text.
TokenInText ==
  /\ mentionIndex >= 0
  /\ mentionIndex + 1 + Len(mentionQuery) <= Len(inputValue)
  /\ inputValue[mentionIndex + 1] = At
  /\ SubSeq(inputValue, mentionIndex + 2, mentionIndex + 1 + Len(mentionQuery))
       = mentionQuery

Pending(files, id) == {k \in 1..Len(files) : files[k].id = id}

\* C15: selecting candidate f while a token is open at index i with query q
\* gives the text before i, then "@", f's filename and a blank, then the text
\* after the token; f's id is pending exactly once afterwards, f being appended
\* iff its id was not pending; the suggestion state is closed.  For "see @rep"
\* with the caret at the end and files report.pdf and notes.txt the candidates
\* are exactly report.pdf, and selecting it gives "see @report.pdf " with id 1
\* pending.  With no token open a selection changes nothing.
MentionSelectSplices ==
  [][/\ \A f \in {Report, Notes} :
          MentionSelect(f) =>
            IF mentionIndex = -1 THEN UNCHANGED vars
            ELSE /\ TokenInText =>
                      inputValue' =
                        SubSeq(inputValue, 1, mentionIndex) \o <<At>> \o f.filename
                          \o <<Space>>
                          \o SubSeq(inputValue, mentionIndex + 2 + Len(mentionQuery),
                                    Len(inputValue))
                 /\ mentionQuery' = NoMention
                 /\ mentionIndex' = -1
                 /\ Cardinality(Pending(attachedFiles', f.id)) = 1
                 /\ attachedFiles' = IF Pending(attachedFiles, f.id) = {}
                                     THEN Append(attachedFiles, f) ELSE attachedFiles
     /\ (/\ inputValue = SeeRep
         /\ mentionQuery = <<"r", "e", "p">>
         /\ availableFiles = <<Report, Notes>>
         /\ attachedFiles = <<>>) =>
          /\ MentionCandidates = <<Report>>
          /\ MentionSelect(Report) =>
               inputValue' = SeeReport /\ attachedFiles' = <<Report>>]_vars

MentionSelectSplicesWitness ==
  /\ inputValue = SeeReport
  /\ attachedFiles = <<Report>>
  /\ availableFiles = <<Report, Notes>>
  /\ mentionQuery = NoMention
  /\ mentionIndex = -1

\* ------------------------------------------------------ token detection
Tab == "\t"

Newline == "\n"

Alphabet == {"a", At, Space, Tab, Newline}

Texts == UNION {[1..n -> Alphabet] : n \in 0..MaxText}

DetectNext == \E val \in Texts : \E cursor \in 0..Len(val) : InputChange(val, cursor)

DetectSpec == Init /\ [][DetectNext]_vars

Whitespace == {Space, Tab, Newline}

\* The position of the most recent "@" before the caret, -1 when there is none.
RecentAt(val, cursor) == LastIndexOf(SubSeq(val, 1, cursor), At)

TokenOpen(val, cursor) ==
  /\ RecentAt(val, cursor) # -1
  /\ \A k \in (RecentAt(val, cursor) + 2)..cursor : val[k] \notin Whitespace

\* C16: after every input change the suggestion state is open iff the text
\* before the caret holds an "@" with no whitespace (blank, tab or newline)
\* between the most recent one and the caret; when open the query is the text
\* between that "@" and the caret and the index is that "@"'s position;
\* otherwise the query is null and the index -1.
MentionDetection ==
  [][\A val \in Texts : \A cursor \in 0..Len(val) :
       InputChange(val, cursor) =>
         IF TokenOpen(val, cursor)
         THEN /\ mentionQuery' = SubSeq(val, RecentAt(val, cursor) + 2, cursor)
              /\ mentionIndex' = RecentAt(val, cursor)
         ELSE /\ mentionQuery' = NoMention
              /\ mentionIndex' = -1]_vars

\* ------------------------------------------- attachments of a dispatched send
\* One send against a service that never reports research in progress, while
\* the user types, uploads, mentions and detaches files; the history of a
\* bound session lists one file of the session.
AttachScenario ==
  Scenario(SessionSends, SessionSelects, {<<"a">>, <<"a", Space, At>>},
           {PlainTranscript}, FALSE, {"idle"}, {NoProgress}, {NoTasks},
           {EmptyTranscript})

AttachNext ==
  \/ \E id \in PlanIds \cup {NoPlan} :
       selects < AttachScenario.selects /\ SelectPlan(id)
  \/ \E j \in 1..Len(fetches) : \E raw \in AttachScenario.histories :
       HistoryArrives(j, raw, <<Report>>)
  \/ \E val \in AttachScenario.inputs : InputChange(val, Len(val))
  \/ \E f \in {Report, Notes} : MentionSelect(f)
  \/ \E f \in {Report, Notes} :
       /\ Len(attachedFiles) < MaxAttached
       /\ ~HasFile(attachedFiles, f.id)
       /\ UploadArrives(f)
  \/ \E f \in {Report, Notes} : RemoveFile(f.id)
  \/ Len(cycles) < AttachScenario.sends /\ KeyDownEnter
  \/ Len(cycles) < AttachScenario.sends /\ ClickSend
  \/ \E i \in 1..Len(cycles) :
       \E data \in ChatAnswers(AttachScenario, cycles[i].req, planStore) :
         \E caught \in BOOLEAN : SendSucceeds(i, data, caught)
  \/ \E i \in 1..Len(cycles) : SendFails(i)

AttachSpec == Init /\ [][AttachNext]_vars

\* The request of cycle i is the one a visible send dispatched and is still
\* in flight.
VisibleInFlight(c) == c.st = "inflight" /\ ~c.hidden

\* C21: the file ids dispatched with a visible send are exactly the ids of the
\* pending attachments when sendMessage is invoked, in their order, and no
\* attachment is pending right after the invocation; while that request is in
\* flight no upload, mention or detachment changes the ids it carries.
SendCarriesPending ==
  [][/\ Len(cycles') = Len(cycles) + 1 =>
          /\ Len(cycles'[Len(cycles')].req.fileIds) = Len(attachedFiles)
          /\ \A k \in 1..Len(attachedFiles) :
               cycles'[Len(cycles')].req.fileIds[k] = attachedFiles[k].id
          /\ attachedFiles' = <<>>
     /\ \A i \in 1..Len(cycles) :
          (VisibleInFlight(cycles[i]) /\ VisibleInFlight(cycles'[i])) =>
            cycles'[i].req.fileIds = cycles[i].req.fileIds]_vars

\* A request carrying the mentioned file of the session and an uploaded one
\* is in flight, and a file uploaded since is pending.
SendCarriesPendingWitness ==
  /\ Len(cycles) = 1
  /\ VisibleInFlight(cycles[1])
  /\ cycles[1].req.fileIds = <<"1", "2">>
  /\ availableFiles = <<Report>>
  /\ attachedFiles = <<Notes>>

\* ------------------------------------------------ documents from the service
Documents(i) == ChatAnswers(BindingScenario, cycles[i].req, planStore)

\* What the canvas holds once the document-changed notification has re-run its
\* load effect for binding id over the store.
Reloaded(id, store, shown, pointer, editing) ==
  IF id = NoPlan THEN shown = NoDoc
  ELSE /\ shown = FindPlan(GetPlansForUser(store, CurrentUser), id)
       /\ pointer = CurrentView
       /\ ~editing

\* C22: when a processed response carries a document, the local plan store
\* then holds that document, once, under its id, the canvas has reloaded from
\* the store (the document-changed notification), and the session is bound to
\* the document's id if the request was sent with no plan id and stays bound
\* as it was if the request carried one.
DocumentIsForwarded ==
  [][\A i \in 1..Len(cycles) : \A data \in Documents(i) : \A caught \in BOOLEAN :
       (SendSucceeds(i, data, caught) /\ data.plan # NoDoc) =>
         /\ FindPlan(planStore', data.plan.id) = data.plan
         /\ Cardinality({k \in 1..Len(planStore') : planStore'[k].id = data.plan.id}) = 1
         /\ selectedPlanId' = IF cycles[i].req.planId = NoPlan THEN data.plan.id
                              ELSE selectedPlanId
         /\ Reloaded(selectedPlanId', planStore', plan', historyIndex', isEditing')]_vars

\* The answer to a request sent with no plan id created document p2 after
\* the user had moved on: p2 is stored and the session is bound to it.
DocumentIsForwardedWitness ==
  /\ selectedPlanId = "p2"
  /\ selects = 1
  /\ Len(cycles) = 1
  /\ cycles[1].st = "done"
  /\ FindPlan(planStore, "p2") # NoDoc
  /\ plan = FindPlan(planStore, "p2")

\* ------------------------------------------------- the continuation chain
\* C23: the request a continuation timer dispatches is hidden, carries the
\* continuation sentinel as its message, and carries the user id and plan id
\* of the request whose answer armed the timer, and its conversation id when
\* that request carried no plan id - whatever the session is bound to by then.
\* Every continuation of a chain therefore carries the binding of the chain's
\* first request.
ContinuationKeepsBinding ==
  [][\A i \in 1..Len(cycles) :
       TimerFires(i) =>
         /\ cycles'[i].st = "inflight"
         /\ cycles'[i].hidden
         /\ cycles'[i].req.message = <<ContinueToken>>
         /\ cycles'[i].req.userId = cycles[i].req.userId
         /\ cycles'[i].req.planId = cycles[i].req.planId
         /\ cycles[i].req.planId = NoPlan =>
              /\ cycles'[i].req.conversationId = cycles[i].req.conversationId
              /\ cycles'[i].req.conversationId # NoConversation]_vars

\* A continuation for the unbound session the chain started in is in flight
\* after the user has selected plan p1.
ContinuationKeepsBindingWitness ==
  /\ selectedPlanId = "p1"
  /\ Len(cycles) = 1
  /\ cycles[1].st = "inflight"
  /\ cycles[1].hidden
  /\ cycles[1].req.planId = NoPlan
  /\ cycles[1].req.conversationId = 1
  /\ cycles[1].req.message = <<ContinueToken>>

\* One send against a service that may report research in progress, next to a
\* canvas whose user navigates the versions of document p1 and edits it.
NotifyScenario ==
  Scenario(SessionSends, SessionSelects, {<<"a">>}, {PlainTranscript}, FALSE,
           ServerStatuses, {NoProgress}, {NoTasks}, {EmptyTranscript})

Notified(i) == ChatAnswers(NotifyScenario, cycles[i].req, planStore)

NotifyNext ==
  \/ \E id \in PlanIds \cup {NoPlan} :
       selects < NotifyScenario.selects /\ SelectPlan(id)
  \/ \E j \in 1..Len(fetches) : \E raw \in NotifyScenario.histories :
       HistoryArrives(j, raw, <<>>)
  \/ \E val \in NotifyScenario.inputs : InputChange(val, Len(val))
  \/ Len(cycles) < NotifyScenario.sends /\ KeyDownEnter
  \/ Len(cycles) < NotifyScenario.sends /\ ClickSend
  \/ \E i \in 1..Len(cycles) : TimerFires(i)
  \/ \E i \in 1..Len(cycles) : \E data \in Notified(i) :
       \E caught \in BOOLEAN : SendSucceeds(i, data, caught)
  \/ \E i \in 1..Len(cycles) : SendFails(i)
  \/ \E v \in 1..MaxVersion : SelectVersion(v)
  \/ OpenVersionPanel
  \/ CloseVersionPanel
  \/ StartEdit
  \/ CancelEdit

NotifySpec == EditInit /\ [][NotifyNext]_vars

\* The continuation timers armed at a moment.
Timers(cs) == {j \in 1..Len(cs) : cs[j].st = "timer"}

\* C24: a continuation timer is armed only by processing a successful
\* response that reports researching, and every such response arms exactly
\* one; a response with any other status, processed to the end, arms none and
\* raises the document-changed notification, on which the canvas reloads from
\* the store and leaves history navigation and edit mode; a failed dispatch
\* arms none.
ContinuationByResearchingOnly ==
  [][/\ Timers(cycles') \ Timers(cycles) # {} =>
          \E i \in 1..Len(cycles) : \E data \in Notified(i) : \E caught \in BOOLEAN :
            SendSucceeds(i, data, caught) /\ data.researchStatus = "researching"
     /\ \A i \in 1..Len(cycles) : \A data \in Notified(i) : \A caught \in BOOLEAN :
          SendSucceeds(i, data, caught) =>
            IF data.researchStatus = "researching"
            THEN Timers(cycles') \ Timers(cycles) = {i}
            ELSE /\ Timers(cycles') \ Timers(cycles) = {}
                 /\ (cycles'[i].st # "failed" /\ ~crashed') =>
                      Reloaded(selectedPlanId', planStore', plan', historyIndex',
                               isEditing')
     /\ \A i \in 1..Len(cycles) :
          SendFails(i) => Timers(cycles') \ Timers(cycles) = {}]_vars

\* The second answer of a chain ended it while the user was editing document
\* p1: no timer is armed and the canvas has left edit mode.
ContinuationByResearchingOnlyWitness ==
  /\ selectedPlanId = "p1"
  /\ Len(cycles) = 1
  /\ cycles[1].st = "done"
  /\ Len(messages) = 2
  /\ messages[1].id = <<"msg", 0>>
  /\ ~isResearching
  /\ ~isEditing
  /\ editState # NoDoc
  /\ plan # NoDoc

\* ------------------------------------------------------ the session binding
\* A request names a plan and no conversation, or a conversation and no plan.
OneBinding(planId, conversationId) ==
  (planId # NoPlan) # (conversationId # NoConversation)

\* C25: while the tree is mounted exactly one of the plan id and the ephemeral
\* conversation id is active - a bound session holds no conversation id, an
\* unbound one holds one - and every request dispatched and not yet settled
\* carries a plan id and no conversation id, or no plan id and a conversation
\* id.
ExactlyOneBinding ==
  /\ ~crashed => OneBinding(selectedPlanId, tempConversationId)
  /\ \A i \in 1..Len(cycles) :
       Active(cycles[i]) => OneBinding(cycles[i].req.planId, cycles[i].req.conversationId)

\* The user has selected plan p1 while the request of the unbound session is
\* in flight: the session holds no conversation id, the request carries one.
ExactlyOneBindingWitness ==
  /\ selectedPlanId = "p1"
  /\ tempConversationId = NoConversation
  /\ Len(cycles) = 1
  /\ cycles[1].st = "inflight"
  /\ cycles[1].req.planId = NoPlan
  /\ cycles[1].req.conversationId = 1

\* --------------------------------------------------- the displayed document
SnapshotsOf(doc, v) == {k \in 1..Len(doc.history) : doc.history[k].version = v}

\* C26: with a live document loaded, the displayed document is the live one
\* when the view pointer is current or names a version not below the live
\* version; for a version v below the live version it is a history snapshot
\* of version v when the history holds one, and the live document when it
\* holds none, an empty history included.  The current view is the live
\* document even when a snapshot shares its version.
DisplayResolved ==
  plan # NoDoc =>
    IF historyIndex = CurrentView \/ historyIndex >= plan.version
    THEN displayPlan = plan
    ELSE IF SnapshotsOf(plan, historyIndex) # {}
         THEN \E k \in SnapshotsOf(plan, historyIndex) : displayPlan = plan.history[k]
         ELSE displayPlan = plan

\* The snapshot of version 1 is displayed of a live document of version 3
\* whose history also holds a snapshot of version 3.
DisplayResolvedWitness ==
  /\ plan # NoDoc
  /\ plan.version = 3
  /\ SnapshotsOf(plan, 3) # {}
  /\ historyIndex = 1
  /\ displayPlan.version = 1
  /\ displayPlan.updatedAt = "old"

\* ------------------------------------------------- what an edit is made of
\* C27: edit mode implies that the view pointer is CurrentView, no entry of
\* the version list is selected while editing, and an edit that starts takes
\* its buffer from the live document, whatever document is displayed.
EditTargetsLive ==
  [][/\ isEditing' => historyIndex' = CurrentView
     /\ \A v \in 1..MaxVersion : SelectVersion(v) => ~isEditing
     /\ (StartEdit /\ plan # NoDoc) => editState' = plan]_vars

\* --------------------------------------------------------- a cancelled edit
\* What a cancel is said to give back.
Kept == <<plan, displayPlan, historyIndex, planStore>>

\* C28 as stated: from the start of an edit, through its section edits, to its
\* cancel, the live document, the displayed document, the view pointer and
\* the local plan store stay as they were before the edit started, no
\* persistence request is issued, and the cancel leaves edit mode off and no
\* edit buffer.
CancelRestores ==
  [][/\ (StartEdit /\ plan # NoDoc) => UNCHANGED <<Kept, saves>>
     /\ \A index \in 0..1 : \A c \in SectionContents :
          UpdateSectionContent(index, c) => UNCHANGED <<Kept, saves>>
     /\ CancelEdit => /\ ~isEditing'
                      /\ editState' = NoDoc
                      /\ UNCHANGED <<Kept, saves>>]_vars

\* C28 amended: the start of an edit leaves the live document and the local
\* plan store as they were and leaves the view pointer at CurrentView with the
\* live document displayed; every section edit and the cancel leave all four
\* as they were; no persistence request is issued, and the cancel leaves edit
\* mode off and no edit buffer.
CancelDiscards ==
  [][/\ (StartEdit /\ plan # NoDoc) =>
          /\ UNCHANGED <<plan, planStore, saves>>
          /\ historyIndex' = CurrentView
          /\ displayPlan' = plan
     /\ \A index \in 0..1 : \A c \in SectionContents :
          UpdateSectionContent(index, c) => UNCHANGED <<Kept, saves>>
     /\ CancelEdit => /\ ~isEditing'
                      /\ editState' = NoDoc
                      /\ UNCHANGED <<Kept, saves>>]_vars

\* A cancel after a commit: only a cancel empties the buffer a commit leaves.
CancelDiscardsWitness ==
  /\ ~isEditing
  /\ editState = NoDoc
  /\ plan # NoDoc
  /\ plan # EditDoc
  /\ displayPlan = plan
  /\ historyIndex = CurrentView
  /\ saves = <<>>

\* ------------------------------------------------------- the content editor
MaxItems == 3

MaxDepth == 2

\* A section's content: text, a list of items, a mapping from keys to contents
\* in the order Object.entries gives them, or a value the editor does not
\* support (a number, a boolean, null).
Text(s) == [shape |-> "text", text |-> s]

ListOf(items) == [shape |-> "list", items |-> items]

Entry(key, value) == [key |-> key, value |-> value]

Mapping(entries) == [shape |-> "mapping", entries |-> entries]

Unsupported == [shape |-> "other"]

\* What the user does in one editor: types into the text area, types into the
\* input of item i, clicks the remove button of item i, clicks "+ Add Item",
\* or does one of these in the editor under a key of a mapping.
TypeText(s) == [kind |-> "type", text |-> s]

TypeItem(i, s) == [kind |-> "item", i |-> i, text |-> s]

RemoveItem(i) == [kind |-> "remove", i |-> i]

AddItem == [kind |-> "add"]

UnderKey(key, inner) == [kind |-> "key", key |-> key, inner |-> inner]

Typed == {"x"}

Keys == {"k1", "k2"}

RECURSIVE Gestures(_)
Gestures(depth) ==
  LET leaves == {TypeText(s) : s \in Typed}
                  \cup {TypeItem(i, s) : i \in 0..(MaxItems - 1), s \in Typed}
                  \cup {RemoveItem(i) : i \in 0..(MaxItems - 1)}
                  \cup {AddItem}
  IN IF depth = 0 THEN leaves
     ELSE leaves \cup {UnderKey(key, inner) : key \in Keys,
                                              inner \in Gestures(depth - 1)}

AllGestures == Gestures(MaxDepth)

HasKey(content, key) ==
  \E k \in 1..Len(content.entries) : content.entries[k].key = key

ValueOf(content, key) ==
  content.entries[CHOOSE k \in 1..Len(content.entries) :
                    content.entries[k].key = key].value

\* The controls ContentEditor renders for a content.
RECURSIVE CanEdit(_, _)
CanEdit(content, g) ==
  CASE g.kind = "type" -> content.shape = "text"
    [] g.kind = "item" -> /\ content.shape = "list"
                          /\ g.i < Len(content.items)
                          /\ content.items[g.i + 1].shape = "text"
    [] g.kind = "remove" -> content.shape = "list" /\ g.i < Len(content.items)
    [] g.kind = "add" -> content.shape = "list"
    [] g.kind = "key" -> /\ content.shape = "mapping"
                         /\ HasKey(content, g.key)
                         /\ CanEdit(ValueOf(content, g.key), g.inner)

\* A removal that drops every item equal to item i.
WithoutItemEqual(items, i) == SelectSeq(items, LAMBDA item : item # items[i + 1])

\* content.filter((_, idx) => idx !== i)
WithoutItem(items, i) ==
  [j \in 1..(Len(items) - 1) |-> IF j < i + 1 THEN items[j] ELSE items[j + 1]]

\* { ...content, [key]: newVal }
WithKey(content, key, newVal) ==
  Mapping([k \in 1..Len(content.entries) |->
             IF content.entries[k].key = key THEN Entry(key, newVal)
             ELSE content.entries[k]])

\* The value ContentEditor passes to onChange.
RECURSIVE OnChange(_, _)
OnChange(content, g) ==
  CASE g.kind = "type" -> Text(g.text)
    [] g.kind = "item" -> ListOf([content.items EXCEPT ![g.i + 1] = Text(g.text)])
    [] g.kind = "remove" -> ListOf(WithoutItem(content.items, g.i))
    [] g.kind = "add" -> ListOf(Append(content.items, Text("New Item")))
    [] g.kind = "key" ->
         WithKey(content, g.key, OnChange(ValueOf(content, g.key), g.inner))

\* The longest list of a content.
RECURSIVE Longest(_)
Longest(content) ==
  LET Max(a, b) == IF a > b THEN a ELSE b
      RECURSIVE Over(_, _)
      Over(seq, sofar) ==
        IF seq = <<>> THEN sofar
        ELSE Over(Tail(seq), Max(sofar, Longest(Head(seq))))
  IN CASE content.shape = "list" -> Over(content.items, Len(content.items))
       [] content.shape = "mapping" ->
            Over([k \in 1..Len(content.entries) |-> content.entries[k].value], 0)
       [] OTHER -> 0

\* The user does g in the editor of section index of the edit buffer.
ContentChange(index, g) ==
  /\ CanvasRendered
  /\ isEditing
  /\ index \in 0..(Len(editState.sections) - 1)
  /\ CanEdit(editState.sections[index + 1].content, g)
  /\ Longest(OnChange(editState.sections[index + 1].content, g)) <= MaxItems
  /\ UpdateSectionContent(index, OnChange(editState.sections[index + 1].content, g))

\* AccountPlan with its optional title.
TitledDoc(id, userId, company, title, version, updatedAt, sections, history) ==
  [id |-> id, userId |-> userId, company |-> company, title |-> title,
   version |-> version, updatedAt |-> updatedAt, sections |-> sections,
   history |-> history]

Items == <<Text("a"), Mapping(<<Entry("k1", Text("a"))>>), Text("a")>>

Nested ==
  Mapping(<<Entry("k1", Text("a")),
            Entry("k2", Mapping(<<Entry("k1", ListOf(<<Text("a"), Text("b")>>)),
                                  Entry("k2", Unsupported)>>))>>)

EditorContents == {Text("a"), ListOf(Items), Nested}

\* The documents the store may hold when the application starts: two sections
\* of any of the contents, with or without a title.
EditorDocs ==
  {TitledDoc("p1", CurrentUser, "Acme", <<"T">>, 2, "live",
             <<Section("s1", c), Section("s2", Text("a"))>>,
             <<Snapshot(1)>>) : c \in EditorContents}
    \cup {Doc("p1", CurrentUser, "Acme", 2, "live",
              <<Section("s1", Text("a")), Section("s2", c)>>, <<Snapshot(1)>>) :
            c \in EditorContents}

EditorInit == \E doc \in EditorDocs : InitWith(<<doc>>)

EditorNext ==
  \/ \E id \in PlanIds \cup {NoPlan} : selects < CanvasSelects /\ SelectPlan(id)
  \/ \E j \in 1..Len(fetches) : HistoryArrives(j, EmptyTranscript, <<>>)
  \/ StartEdit
  \/ CancelEdit
  \/ \E index \in 0..1 : \E g \in AllGestures : ContentChange(index, g)

EditorSpec == EditorInit /\ [][EditorNext]_vars

\* C29: replacing the content of section index of the edit buffer leaves a
\* buffer with the same fields, each but `sections` with the value it had, and
\* as many sections in the same order: section index has the title it had and
\* the new content, every other section is as it was, and nothing but the
\* buffer changes; with no edit buffer nothing changes.
SectionReplaced ==
  [][\A index \in 0..1 :
       /\ \A g \in AllGestures :
            ContentChange(index, g) =>
              /\ DOMAIN editState' = DOMAIN editState
              /\ \A f \in DOMAIN editState \ {"sections"} :
                   editState'[f] = editState[f]
              /\ Len(editState'.sections) = Len(editState.sections)
              /\ \A k \in 1..Len(editState.sections) :
                   IF k = index + 1
                   THEN /\ editState'.sections[k].title = editState.sections[k].title
                        /\ editState'.sections[k].content =
                             OnChange(editState.sections[k].content, g)
                   ELSE editState'.sections[k] = editState.sections[k]
              /\ UNCHANGED <<plan, displayPlan, isEditing, historyIndex, planStore,
                             saves>>
       /\ (UpdateSectionContent(index, Unsupported) /\ editState = NoDoc) =>
            UNCHANGED vars]_vars

\* The second section of the titled document edited, the first one as stored.
SectionReplacedWitness ==
  /\ isEditing
  /\ "title" \in DOMAIN editState
  /\ editState.title = <<"T">>
  /\ editState.id = "p1"
  /\ editState.version = 2
  /\ editState.history = <<Snapshot(1)>>
  /\ editState.sections = <<Section("s1", ListOf(Items)), Section("s2", Text("x"))>>
  /\ plan.sections = <<Section("s1", ListOf(Items)), Section("s2", Text("a"))>>

\* What a content keeps when the user does g in its editor and the editor
\* reports `new`.
RECURSIVE Keeps(_, _, _)
Keeps(old, new, g) ==
  /\ new.shape = old.shape
  /\ CASE g.kind = "type" -> new.text = g.text
       [] g.kind = "item" ->
            /\ Len(new.items) = Len(old.items)
            /\ \A j \in 1..Len(old.items) :
                 new.items[j] = IF j = g.i + 1 THEN Text(g.text) ELSE old.items[j]
       [] g.kind = "remove" ->
            /\ Len(new.items) = Len(old.items) - 1
            /\ \A j \in 1..Len(new.items) :
                 new.items[j] = IF j <= g.i THEN old.items[j] ELSE old.items[j + 1]
       [] g.kind = "add" ->
            /\ Len(new.items) = Len(old.items) + 1
            /\ \A j \in 1..Len(old.items) : new.items[j] = old.items[j]
       [] g.kind = "key" ->
            /\ Len(new.entries) = Len(old.entries)
            /\ \A k \in 1..Len(old.entries) :
                 /\ new.entries[k].key = old.entries[k].key
                 /\ IF old.entries[k].key = g.key
                    THEN Keeps(old.entries[k].value, new.entries[k].value, g.inner)
                    ELSE new.entries[k].value = old.entries[k].value

\* C30: what the editor of a section reports keeps the shape of the content
\* and every part the user did not touch: an edited item changes only that
\* item, a removed item leaves the others in their order, and an edit under a
\* key of a mapping, at any depth, leaves every other key with its value and
\* the order of the keys.
StructureKept ==
  [][\A index \in 0..1 : \A g \in AllGestures :
       ContentChange(index, g) =>
         Keeps(editState.sections[index + 1].content,
               editState'.sections[index + 1].content, g)]_vars

\* An item edited and the other item removed in the list under k2.k1.
StructureKeptWitness ==
  /\ isEditing
  /\ editState.sections[1].content =
       Mapping(<<Entry("k1", Text("a")),
                 Entry("k2", Mapping(<<Entry("k1", ListOf(<<Text("x")>>)),
                                       Entry("k2", Unsupported)>>))>>)
  /\ plan.sections[1].content = Nested

\* ------------------------------------------------------ the suggestion list
\* The same letter, in either case.
SameLetter(a, b) ==
  \/ a = b
  \/ {a, b} \in {{"R", "r"}, {"E", "e"}, {"P", "p"}, {"T", "t"}}

\* Text `name` holds text q at some offset, letters compared without case.
ContainsFolded(name, q) ==
  \E k \in 0..(Len(name) - Len(q)) :
    \A j \in 1..Len(q) : SameLetter(name[k + j], q[j])

Listed(files) == {files[k] : k \in 1..Len(files)}

\* C31: while a reference token is open with query q the suggestion list
\* holds exactly the available and the pending files whose filename contains q
\* without regard to case, holds no file id twice, and holds no file that is
\* only pending before a file that is available.
CandidatesAreMatches ==
  mentionQuery # NoMention =>
    /\ Listed(MentionCandidates) =
         {f \in Listed(availableFiles) \cup Listed(attachedFiles) :
            ContainsFolded(f.filename, mentionQuery)}
    /\ \A k, l \in 1..Len(MentionCandidates) :
         MentionCandidates[k].id = MentionCandidates[l].id => k = l
    /\ \A k, l \in 1..Len(MentionCandidates) :
         (/\ k < l
          /\ MentionCandidates[l] \in Listed(availableFiles)) =>
            MentionCandidates[k] \in Listed(availableFiles)

\* "@T" typed with report.pdf available and pending and notes.txt only
\* pending: both match, the available file first.
CandidatesAreMatchesWitness ==
  /\ mentionQuery = <<"T">>
  /\ availableFiles = <<Report>>
  /\ attachedFiles = <<Notes, Report>>
  /\ MentionCandidates = <<Report, Notes>>

\* ------------------------------------------------- the pending attachments
\* C32: no input change changes the pending attachments and no selection of
\* a candidate drops or reorders one of them; a detachment
\* removes the files with its id and no other; and a file that was pending is
\* pending no more only after a detachment or a visible send.
PendingOnlyGrows ==
  [][/\ attachedFiles' # attachedFiles =>
          \A val \in AttachScenario.inputs : ~InputChange(val, Len(val))
     /\ ~(/\ Len(attachedFiles') >= Len(attachedFiles)
          /\ SubSeq(attachedFiles', 1, Len(attachedFiles)) = attachedFiles) =>
          \A f \in {Report, Notes} : ~MentionSelect(f)
     /\ attachedFiles' # attachedFiles =>
          \A f \in {Report, Notes} :
            RemoveFile(f.id) =>
              /\ Listed(attachedFiles') =
                   {g \in Listed(attachedFiles) : g.id # f.id}
              /\ Len(attachedFiles') =
                   Len(attachedFiles) - Cardinality(Pending(attachedFiles, f.id))
     /\ Listed(attachedFiles) \ Listed(attachedFiles') # {} =>
          \/ \E f \in {Report, Notes} : RemoveFile(f.id)
          \/ KeyDownEnter
          \/ ClickSend]_vars

\* notes.txt was uploaded, report.pdf selected from the suggestions of the
\* session's files and notes.txt detached, with the text still to be sent.
PendingOnlyGrowsWitness ==
  /\ availableFiles = <<Report>>
  /\ attachedFiles = <<Report>>
  /\ inputValue = <<"a", Space, At>> \o Report.filename \o <<Space>>
  /\ cycles = <<>>

\* ------------------------------------------------------ the local plan store
MaxCopies == 2

\* The ids duplicatePlan may draw: "plan-" + Date.now() + "-" + five random
\* characters, which no stored document has.
DuplicateIds == {"d1", "d2"}

StoreIds(store) == {store[k].id : k \in 1..Len(store)}

\* deletePlan: plans.filter(p => p.id !== planId).
DeletePlan(store, planId) ==
  LET Others(p) == p.id # planId IN FilterSeq(Others, store)

\* originalPlan.title ? `Copy of ${originalPlan.title}` : `Copy of
\* ${originalPlan.company}`, a title being a sequence of words.
CopyTitle(doc) ==
  IF "title" \in DOMAIN doc /\ doc.title # <<>>
  THEN <<"Copy of">> \o doc.title
  ELSE <<"Copy of", doc.company>>

\* A copy that keeps the version of the original.
DuplicatePlanKeepsVersion(store, planId, newId) ==
  LET original == FindPlan(store, planId)
  IN IF original = NoDoc THEN store
     ELSE Append(store,
                 TitledDoc(newId, original.userId, original.company,
                           CopyTitle(original), original.version, "now",
                           original.sections, original.history))

\* duplicatePlan: the store after the call; the copy is { ...originalPlan }
\* with a new id, title and date and version 1.
DuplicatePlan(store, planId, newId) ==
  LET original == FindPlan(store, planId)
  IN IF original = NoDoc THEN store
     ELSE Append(store,
                 TitledDoc(newId, original.userId, original.company,
                           CopyTitle(original), 1, "now", original.sections,
                           original.history))

\* Sidebar's confirmDelete for the plan planId, with the effects of the
\* selection it clears.
ConfirmDelete(planId) ==
  /\ ~crashed
  /\ planStore' = DeletePlan(planStore, planId)
  /\ IF selectedPlanId = planId
     THEN /\ selectedPlanId' = NoPlan
          /\ ChatResetEffect(NoPlan, planStore')
          /\ CanvasLoadEffect(NoPlan, planStore')
          /\ UNCHANGED <<inputValue, researchStartTime, attachedFiles,
                         mentionQuery, mentionIndex, cycles, commitVars, clock,
                         selects, crashed>>
     ELSE UNCHANGED <<appVars, chatVars, asyncVars, canvasVars, commitVars,
                      clock, nextConversation, selects, crashed>>

\* Sidebar's handleDuplicate for the plan planId; newId is the id drawn.
HandleDuplicate(planId, newId) ==
  /\ ~crashed
  /\ newId \in DuplicateIds \ StoreIds(planStore)
  /\ planStore' = DuplicatePlan(planStore, planId, newId)
  /\ UNCHANGED <<appVars, chatVars, asyncVars, canvasVars, commitVars, clock,
                 nextConversation, selects, crashed>>

\* A stored document of version 3 with the snapshots of versions 1 and 2, and
\* a document of another user.
StoreDoc ==
  Doc("p1", CurrentUser, "Acme", 3, "live", <<Section("s1", "c0")>>,
      <<Doc("p1", CurrentUser, "Acme", 1, "old", <<>>, <<>>),
        Doc("p1", CurrentUser, "Acme", 2, "old", <<Section("s1", "c0")>>, <<>>)>>)

OtherDoc == Doc("p2", OtherUser, "Bolt", 1, "live", <<>>, <<>>)

StoreInit == InitWith(<<StoreDoc, OtherDoc>>)

\* storageService.savePlan(doc), as handleSendMessage and handleSaveEdit
\* call it.
StorageSavePlan(doc) ==
  /\ ~crashed
  /\ planStore' = SavePlan(planStore, doc)
  /\ UNCHANGED <<appVars, chatVars, asyncVars, canvasVars, commitVars, clock,
                 nextConversation, selects, crashed>>

\* The documents a caller saves: a stored document with its first section
\* rewritten, or the first document of p3.
SavedDocs ==
  {WithSectionContent(planStore[k], 0, "c1") :
     k \in {i \in 1..Len(planStore) : planStore[i].sections # <<>>}}
    \cup {Doc("p3", CurrentUser, "Cobalt", 1, "live", <<>>, <<>>)}

StoreNext ==
  \/ \E doc \in SavedDocs : StorageSavePlan(doc)
  \/ \E id \in PlanIds \cup DuplicateIds : ConfirmDelete(id)
  \/ \E id \in PlanIds \cup DuplicateIds : \E newId \in DuplicateIds :
       /\ Len(CopyTitle(FindPlan(planStore, id))) <= MaxCopies + 1
       /\ HandleDuplicate(id, newId)
  \/ \E id \in PlanIds : selects < CanvasSelects /\ SelectPlan(id)

StoreSpec == StoreInit /\ [][StoreNext]_vars

\* C33: the store holds no id twice; a save replaces the document with the
\* saved id where it stands, or appends the document when the id is new; a
\* deletion removes the documents with the id and keeps the others in their
\* order; a duplication of a stored id appends one document with an id the
\* store did not hold, version 1 and the sections and history of the original,
\* which stays as it was, and a duplication of an unknown id changes nothing.
StoreKeepsOnePerId ==
  [][/\ \A i, j \in 1..Len(planStore') :
          planStore'[i].id = planStore'[j].id => i = j
     /\ \A doc \in SavedDocs :
          StorageSavePlan(doc) =>
            IF doc.id \in StoreIds(planStore)
            THEN /\ Len(planStore') = Len(planStore)
                 /\ \A i \in 1..Len(planStore) :
                      planStore'[i] = IF planStore[i].id = doc.id
                                      THEN doc ELSE planStore[i]
            ELSE planStore' = planStore \o <<doc>>
     /\ \A id \in PlanIds \cup DuplicateIds :
          ConfirmDelete(id) =>
            /\ id \notin StoreIds(planStore')
            /\ \A i \in 1..Len(planStore) :
                 planStore[i].id # id =>
                   \E n \in 1..Len(planStore') :
                     /\ planStore'[n] = planStore[i]
                     /\ n = Cardinality({m \in 1..i : planStore[m].id # id})
            /\ Len(planStore') =
                 Cardinality({m \in 1..Len(planStore) : planStore[m].id # id})
     /\ \A id \in PlanIds \cup DuplicateIds : \A newId \in DuplicateIds :
          HandleDuplicate(id, newId) =>
            IF id \in StoreIds(planStore)
            THEN /\ Len(planStore') = Len(planStore) + 1
                 /\ SubSeq(planStore', 1, Len(planStore)) = planStore
                 /\ planStore'[Len(planStore')].id = newId
                 /\ newId \notin StoreIds(planStore)
                 /\ planStore'[Len(planStore')].version = 1
                 /\ planStore'[Len(planStore')].sections =
                      FindPlan(planStore, id).sections
                 /\ planStore'[Len(planStore')].history =
                      FindPlan(planStore, id).history
            ELSE planStore' = planStore]_vars

\* The copy of p1 was edited and saved where it stands, a copy of the copy
\* was made, and p1 was deleted.
StoreKeepsOnePerIdWitness ==
  /\ Len(planStore) = 3
  /\ planStore[1] = OtherDoc
  /\ planStore[2].id = "d1"
  /\ planStore[2].sections = <<Section("s1", "c1")>>
  /\ planStore[2].version = 1
  /\ planStore[3].id = "d2"
  /\ planStore[3].title = <<"Copy of", "Copy of", "Acme">>
  /\ saves = <<>>

\* ------------------------------------------------------- history fetches
\* A second stored document of the current user.
SecondDoc == Doc("p2", CurrentUser, "Bolt", 1, "live", <<>>, <<>>)

FetchInit == InitWith(<<InitialDoc, SecondDoc>>)

FetchNext ==
  \/ \E id \in PlanIds \cup {NoPlan} : selects < MaxSelects /\ SelectPlan(id)
  \/ \E j \in 1..Len(fetches) : \E raw \in {EmptyTranscript, PlainTranscript} :
       \E files \in ServerFileLists : HistoryArrives(j, raw, files)
  \/ \E val \in {<<"a">>} : InputChange(val, Len(val))

FetchSpec == FetchInit /\ [][FetchNext]_vars

\* C34: once the session is bound to another plan, the result of a history
\* fetch issued for the earlier plan changes neither the transcript nor the
\* available files of the session.
StaleHistoryIsDropped ==
  [][\A j \in 1..Len(fetches) :
       \A raw \in {EmptyTranscript, PlainTranscript} : \A files \in ServerFileLists :
         (/\ selectedPlanId # NoPlan
          /\ fetches[j].planId # selectedPlanId
          /\ HistoryArrives(j, raw, files)) =>
           UNCHANGED <<messages, availableFiles>>]_vars

\* The user messages of the transcript that belong to a user-initiated send
\* of the current binding whose request is still in flight.
OptimisticMessages ==
  {m \in Listed(messages) :
     /\ m.role = "user"
     /\ \E i \in 1..Len(cycles) :
          /\ VisibleInFlight(cycles[i])
          /\ cycles[i].cl.selectedPlanId = selectedPlanId
          /\ cycles[i].req.message = m.content}

\* C35: a history fetch of the current binding that completes while a
\* user-initiated send is in flight keeps that send's user message in the
\* transcript.
OptimisticMessageStays ==
  [][\A j \in 1..Len(fetches) : \A files \in ServerFileLists :
       (/\ OptimisticMessages # {}
        /\ fetches[j].planId = selectedPlanId
        /\ HistoryArrives(j, EmptyTranscript, files)) =>
         OptimisticMessages \subseteq Listed(messages')]_vars

\* C36: in a session with a single send cycle and no selection by the user,
\* research status is researching while the cycle's request is in flight or
\* its continuation is pending.
OutstandingMeansResearching ==
  \A i \in 1..Len(cycles) :
    (Len(cycles) = 1 /\ selects = 0 /\ cycles[i].st \in {"inflight", "timer"}) =>
      isResearching

\* ------------------------------------------- attachments and continuations
\* One send with uploaded attachments against a service that may report
\* research in progress, so that continuations are armed and fire.
ContinuationNext ==
  \/ \E val \in FairScenario.inputs : InputChange(val, Len(val))
  \/ \E f \in {Report, Notes} :
       /\ Len(attachedFiles) < MaxAttached
       /\ ~HasFile(attachedFiles, f.id)
       /\ UploadArrives(f)
  \/ \E f \in {Report, Notes} : RemoveFile(f.id)
  \/ Len(cycles) < FairScenario.sends /\ KeyDownEnter
  \/ Len(cycles) < FairScenario.sends /\ ClickSend
  \/ \E i \in 1..Len(cycles) : TimerFires(i)
  \/ \E i \in 1..Len(cycles) : Completion(i)

ContinuationSpec == Init /\ [][ContinuationNext]_vars

\* C37: a hidden continuation request carries no file id.
ContinuationCarriesNoFiles ==
  \A i \in 1..Len(cycles) :
    (cycles[i].st = "inflight" /\ cycles[i].hidden) => cycles[i].req.fileIds = <<>>

\* C38: while the persistence request of a committed edit is in flight and
\* the canvas holds the committed buffer, a response that carries no document
\* and keeps the binding leaves the live and the displayed document as they
\* are.
CommitSurvivesRefresh ==
  [][\A i \in 1..Len(cycles) : \A data \in Documents(i) : \A caught \in BOOLEAN :
       (/\ Len(saves) = 1
        /\ selectedPlanId = saves[1].planId
        /\ plan = saves[1].doc
        /\ displayPlan = saves[1].doc
        /\ data.plan = NoDoc
        /\ SendSucceeds(i, data, caught)) =>
         /\ plan' = plan
         /\ displayPlan' = displayPlan]_vars

\* ------------------------------------------------ refreshes during an edit
\* An edit of document p1, with the version panel at hand, next to a session
\* whose user switches plans and whose one send is answered by a service that
\* returns documents.  The persistence request of a commit stays in flight.
RefreshNext ==
  \/ \E id \in PlanIds \cup {NoPlan} : selects < MaxSelects /\ SelectPlan(id)
  \/ \E j \in 1..Len(fetches) : HistoryArrives(j, EmptyTranscript, <<>>)
  \/ \E val \in BindingScenario.inputs : InputChange(val, Len(val))
  \/ Len(cycles) < BindingScenario.sends /\ KeyDownEnter
  \/ \E i \in 1..Len(cycles) : \E data \in Documents(i) :
       \E caught \in BOOLEAN : SendSucceeds(i, data, caught)
  \/ OpenVersionPanel
  \/ \E v \in 1..MaxVersion : SelectVersion(v)
  \/ StartEdit
  \/ UpdateSectionContent(0, "c1")
  \/ Len(saves) < MaxPendingSaves /\ SaveEdit

RefreshSpec == EditInit /\ [][RefreshNext]_vars

\* The document the local store holds for the current user under id.
StoredFor(store, id) ==
  LET hits == {k \in 1..Len(store) :
                 store[k].id = id /\ store[k].userId = CurrentUser}
  IN IF hits = {} THEN NoDoc
     ELSE store[CHOOSE k \in hits : \A m \in hits : k <= m]

\* A refresh reaches the canvas: the plan id changes, or a response has been
\* processed to its end and the document-changed notification raised.
RefreshArrives ==
  \/ selectedPlanId' # selectedPlanId
  \/ \E i \in 1..Len(cycles) : cycles[i].st = "inflight" /\ cycles'[i].st = "done"

\* Nothing of the edit is committed: no persistence request is issued and
\* the local store receives nothing but the document a processed response
\* carries.
NothingCommitted ==
  /\ saves' = saves
  /\ \A d \in Listed(planStore') \ Listed(planStore) :
       \E i \in 1..Len(cycles) :
         /\ cycles[i].st = "inflight"
         /\ cycles'[i].st = "done"
         /\ \E data \in Documents(i) : data.plan = d

\* C39 as claimed: every refresh that arrives during an edit exits edit mode
\* and resets the view pointer to current, leaves the live and the displayed
\* document equal to the store's document for the plan id, and commits nothing.
RefreshExitsEdit ==
  [][(isEditing /\ RefreshArrives) =>
       /\ ~isEditing'
       /\ historyIndex' = CurrentView
       /\ plan' = StoredFor(planStore', selectedPlanId')
       /\ displayPlan' = plan'
       /\ NothingCommitted]_vars

\* C39 (amended): a refresh that arrives during an edit and finds a plan id
\* bound exits edit mode and resets the view pointer to current; one that finds
\* no plan id bound leaves the edit flag and the view pointer as they are.
\* Either way the live and the displayed document are the store's document for
\* the plan id (none when no plan id is bound) and nothing is committed.
RefreshAbandonsEdit ==
  [][(isEditing /\ RefreshArrives) =>
       /\ IF selectedPlanId' # NoPlan
          THEN ~isEditing' /\ historyIndex' = CurrentView
          ELSE UNCHANGED <<isEditing, historyIndex>>
       /\ plan' = StoredFor(planStore', selectedPlanId')
       /\ displayPlan' = plan'
       /\ NothingCommitted]_vars

\* The answer to the send arrived while section 1 of p1 was being edited: the
\* canvas shows the stored document at the current view, outside edit mode,
\* the buffer still holds the edit, and neither the store nor the service
\* received it.
RefreshAbandonsEditWitness ==
  /\ selectedPlanId = "p1"
  /\ Len(cycles) = 1
  /\ cycles[1].st = "done"
  /\ ~isEditing
  /\ historyIndex = CurrentView
  /\ editState # NoDoc
  /\ Len(editState.sections) = 2
  /\ editState.sections[1].content = "c1"
  /\ plan = EditDoc
  /\ displayPlan = EditDoc
  /\ planStore = <<EditDoc>>
  /\ saves = <<>>

\* C40: a click on an entry of the version list leaves a document of the
\* entry's version displayed.
ListedVersionIsViewable ==
  [][\A v \in 1..MaxVersion :
       SelectVersion(v) => displayPlan'.version = v]_vars
====
